---- MODULE Spec2Model ----
(***************************************************************************)
(* A model of AppExpress (src/source/appexpress.ts, src/source/response.ts *)
(* and the request wrapper in src/unnamed/part_007): route registration    *)
(* and resolution, the incoming/outgoing middleware pipeline, dependency   *)
(* injection and response finalisation.                                    *)
(*                                                                         *)
(* JavaScript strings are modelled as sequences of one-character strings,  *)
(* so that the regular expressions and the split/replace calls of the code *)
(* are computed character by character.  A JavaScript Map is a sequence of *)
(* [k, v] records without repeated keys, in insertion order.               *)
(***************************************************************************)
EXTENDS Naturals, Sequences, FiniteSets, TLC

VARIABLES
    routes,        \* #routes: one Map per bucket (appexpress.ts:148)
    router,        \* one AppExpress.Router under construction: [empty, internalRoutes]
    middlewares,   \* #middlewares: [incoming, outgoing] (appexpress.ts:139)
    dependencies,  \* #dependencies: the injection registry (appexpress.ts:146)
    engine,        \* #engine: Map of extension -> view engine (appexpress.ts:149)
    config,        \* #showPoweredBy and the other settings (appexpress.ts:150-158)
    context,       \* #context/#request/#response: the invocation they are bound to
    ctx,           \* the host's context objects, one per invocation slot
    inv,           \* the locals of each running #handleRequest call
    injected,      \* history: the (instance, identifier) pairs inject() accepted
    lastCall       \* history: the latest set-up call and the error it threw

vars == <<routes, router, middlewares, dependencies, engine, config, context, ctx, inv,
          injected, lastCall>>

(***************************************************************************)
(* Characters and strings.                                                 *)
(***************************************************************************)
WordChars == {"a", "b", "c", "i", "p", "r", "u", "x", "z", "2", "4"}

IsWord(c) == c \in WordChars

SLASH == <<"/">>

STAR == <<"*">>

\* String.prototype.startsWith / endsWith on character sequences.
StartsWith(s, c) == Len(s) > 0 /\ s[1] = c

EndsWith(s, c) == Len(s) > 0 /\ s[Len(s)] = c

\* s.substring(1)
Substring1(s) == SubSeq(s, 2, Len(s))

\* s.replace(/\/+$/, ''): drop every trailing slash.
RECURSIVE StripTrailingSlashes(_)
StripTrailingSlashes(s) ==
    IF EndsWith(s, "/") THEN StripTrailingSlashes(SubSeq(s, 1, Len(s) - 1)) ELSE s

\* s.replace(/\/+/g, '/'): collapse every run of slashes into one slash.
RECURSIVE CollapseSlashes(_)
CollapseSlashes(s) ==
    IF Len(s) < 2 THEN s
    ELSE IF s[1] = "/" /\ s[2] = "/" THEN CollapseSlashes(Tail(s))
    ELSE <<s[1]>> \o CollapseSlashes(Tail(s))

\* s.split('/'): the pieces between slashes, empty ones included.
RECURSIVE Split(_)
Split(s) ==
    IF \A k \in 1..Len(s) : s[k] # "/" THEN <<s>>
    ELSE LET k == CHOOSE n \in 1..Len(s) : s[n] = "/" /\ \A m \in 1..(n - 1) : s[m] # "/"
         IN  <<SubSeq(s, 1, k - 1)>> \o Split(SubSeq(s, k + 1, Len(s)))

\* parts.filter((part) => part.length)
RECURSIVE FilterNonEmpty(_)
FilterNonEmpty(parts) ==
    IF parts = <<>> THEN <<>>
    ELSE IF Len(Head(parts)) > 0 THEN <<Head(parts)>> \o FilterNonEmpty(Tail(parts))
    ELSE FilterNonEmpty(Tail(parts))

\* The length of the run of word characters that starts at position k of s.
RECURSIVE WordRun(_, _)
WordRun(s, k) == IF k <= Len(s) /\ IsWord(s[k]) THEN 1 + WordRun(s, k + 1) ELSE 0

(***************************************************************************)
(* The regular expression of a route pattern.  The tokens of the compiled  *)
(* expression: a character stands for itself, "G" for the group ([^/]+)    *)
(* and "S" for .* .                                                         *)
(***************************************************************************)
\* path.replace(/:\w+/g, '([^/]+)').replace(/\*/g, '.*')
RECURSIVE RegexPattern(_)
RegexPattern(p) ==
    IF p = <<>> THEN <<>>
    ELSE IF p[1] = ":" /\ WordRun(p, 2) > 0
         THEN <<"G">> \o RegexPattern(SubSeq(p, 2 + WordRun(p, 2), Len(p)))
    ELSE IF p[1] = "*" THEN <<"S">> \o RegexPattern(Tail(p))
    ELSE IF p[1] = "." THEN <<"D">> \o RegexPattern(Tail(p))
    ELSE <<p[1]>> \o RegexPattern(Tail(p))

\* new RegExp('^' + regexPattern + '$') tested against s.
RECURSIVE RegexTest(_, _)
RegexTest(re, s) ==
    IF re = <<>> THEN s = <<>>
    ELSE IF re[1] = "G"
         THEN \E n \in 1..Len(s) :
                 /\ \A m \in 1..n : s[m] # "/"
                 /\ RegexTest(Tail(re), SubSeq(s, n + 1, Len(s)))
    ELSE IF re[1] = "D" THEN s # <<>> /\ RegexTest(Tail(re), Tail(s))
    ELSE IF re[1] = "S"
         THEN \E n \in 0..Len(s) : RegexTest(Tail(re), SubSeq(s, n + 1, Len(s)))
    ELSE s # <<>> /\ s[1] = re[1] /\ RegexTest(Tail(re), Tail(s))

\* path.match(/:\w+/g): whether the pattern declares a named parameter.
HasKeys(p) == \E k \in 1..Len(p) : p[k] = ":" /\ WordRun(p, k + 1) > 0

(***************************************************************************)
(* JavaScript Maps: sequences of [k, v] records, in insertion order.       *)
(***************************************************************************)
EmptyMap == <<>>

MapHas(m, key) == \E n \in 1..Len(m) : m[n].k = key

MapIndex(m, key) == CHOOSE n \in 1..Len(m) : m[n].k = key

MapGet(m, key) == m[MapIndex(m, key)].v

\* A set that moves an existing key to the end.
MapSet_moveToEnd(m, key, val) ==
    LET others == {n \in 1..Len(m) : m[n].k # key}
        nth(j) == CHOOSE n \in others : Cardinality({o \in others : o <= n}) = j
    IN  [j \in 1..Cardinality(others) |-> m[nth(j)]] \o <<[k |-> key, v |-> val]>>

\* Map.prototype.set: an existing key keeps its position and takes the new value.
MapSet(m, key, val) ==
    IF MapHas(m, key)
    THEN [m EXCEPT ![MapIndex(m, key)] = [k |-> key, v |-> val]]
    ELSE Append(m, [k |-> key, v |-> val])

MapKeys(m) == {m[n].k : n \in 1..Len(m)}

(***************************************************************************)
(* Route table.                                                            *)
(***************************************************************************)
\* requestMethods(): the seven buckets, in the order of the object's keys.
BucketOrder == <<"get", "post", "put", "patch", "delete", "options", "all">>

Buckets == {BucketOrder[n] : n \in 1..Len(BucketOrder)}

requestMethods == [b \in Buckets |-> EmptyMap]

\* A statement of a user callback (see "User callbacks" below).
Stmt(op, x, y, s) == [op |-> op, x |-> x, y |-> y, s |-> s]

\* The value of routeHandler while no handler was found (undefined).
UndefinedHandler == <<Stmt("undefined", <<>>, "", 0)>>

\* A join that keeps repeated slashes.
normalizePath_noCollapse(basePath, route) ==
    LET fullPath == basePath \o SLASH \o route
    IN  IF EndsWith(fullPath, "/") /\ Len(fullPath) > 1
        THEN SubSeq(fullPath, 1, Len(fullPath) - 1)
        ELSE fullPath

\* #normalizePath(basePath, route)
normalizePath(basePath, route) ==
    LET fullPath == CollapseSlashes(basePath \o SLASH \o route)
    IN  IF EndsWith(fullPath, "/") /\ Len(fullPath) > 1
        THEN SubSeq(fullPath, 1, Len(fullPath) - 1)
        ELSE fullPath

\* request.params before any extraction: context.req.params is not set.
NoParams == [set |-> FALSE, map |-> <<>>]

\* #extractParamsFromRoute(requestPath, routePathPattern): the new value of
\* context.req.params, given its old value.
extractParamsFromRoute(requestPath, routePathPattern, old) ==
    LET pathParts    == FilterNonEmpty(Split(requestPath))
        patternParts == FilterNonEmpty(Split(routePathPattern))
        named        == {n \in 1..Len(patternParts) : StartsWith(patternParts[n], ":")}
        names        == {Substring1(patternParts[n]) : n \in named}
        last(name)   == CHOOSE n \in named :
                            /\ Substring1(patternParts[n]) = name
                            /\ \A m \in named :
                                  Substring1(patternParts[m]) = name => m <= n
    IN  IF Len(patternParts) # Len(pathParts) THEN old
        ELSE [set |-> TRUE, map |-> [name \in names |-> pathParts[last(name)]]]

\* The regex test of one pattern against the request path (appexpress.ts:653-658).
PatternMatches(pattern, requestPath) == RegexTest(RegexPattern(pattern), requestPath)

\* The scan of the method's bucket: the position of the first pattern, other
\* than the literal '*', that matches; 0 when none does.
RECURSIVE ScanMethodFrom(_, _, _)
ScanMethodFrom(bucket, requestPath, n) ==
    IF n > Len(bucket) THEN 0
    ELSE IF bucket[n].k # STAR /\ PatternMatches(bucket[n].k, requestPath) THEN n
    ELSE ScanMethodFrom(bucket, requestPath, n + 1)

\* A scan of the method's bucket that goes on after a match and keeps the
\* last one.
ScanMethod_lastMatch(bucket, requestPath) ==
    LET found == {n \in 1..Len(bucket) :
                     bucket[n].k # STAR /\ PatternMatches(bucket[n].k, requestPath)}
    IN  IF found = {} THEN 0 ELSE CHOOSE n \in found : \A m \in found : m <= n

ScanMethod(bucket, requestPath) == ScanMethodFrom(bucket, requestPath, 1)

\* The scan of the ALL bucket: every pattern is tested and each match
\* overwrites routeHandler, so the last matching position is kept; 0 when none.
RECURSIVE ScanAllFrom(_, _, _, _)
ScanAllFrom(bucket, requestPath, n, found) ==
    IF n > Len(bucket) THEN found
    ELSE IF PatternMatches(bucket[n].k, requestPath)
         THEN ScanAllFrom(bucket, requestPath, n + 1, n)
    ELSE ScanAllFrom(bucket, requestPath, n + 1, found)

\* A resolution that never looks into the ALL bucket.
ScanAll_never(bucket, requestPath) == 0

\* A scan of the ALL bucket that stops at the first match.
ScanAll_firstMatch(bucket, requestPath) ==
    LET found == {n \in 1..Len(bucket) : PatternMatches(bucket[n].k, requestPath)}
    IN  IF found = {} THEN 0 ELSE CHOOSE n \in found : \A m \in found : n <= m

ScanAll(bucket, requestPath) == ScanAllFrom(bucket, requestPath, 1, 0)

\* The wildcard fallback: '*' of the method's bucket, else '*' of the ALL bucket.
WildcardFallback(table, method) ==
    IF MapHas(table[method], STAR) THEN [handler |-> MapGet(table[method], STAR), via |-> "star"]
    ELSE IF MapHas(table.all, STAR) THEN [handler |-> MapGet(table.all, STAR), via |-> "allstar"]
    ELSE [handler |-> UndefinedHandler, via |-> "none"]

\* A resolution without the exact lookup: the scans and the fallback only.
ResolveRoute_scanOnly(table, method, requestPath) ==
    LET own == table[method]
        n   == ScanMethod(own, requestPath)
        a   == ScanAll(table.all, requestPath)
        fb  == WildcardFallback(table, method)
    IN  IF n > 0
        THEN [handler |-> own[n].v,
              params |-> IF HasKeys(own[n].k)
                         THEN extractParamsFromRoute(requestPath, own[n].k, NoParams)
                         ELSE NoParams,
              via |-> "scan", pattern |-> own[n].k]
        ELSE IF a > 0
        THEN [handler |-> table.all[a].v, params |-> NoParams,
              via |-> "all", pattern |-> table.all[a].k]
        ELSE [handler |-> fb.handler, params |-> NoParams,
              via |-> fb.via, pattern |-> IF fb.via = "none" THEN <<>> ELSE STAR]

\* A resolution that looks at what was served before: when the context of
\* the first slot was the last one attached, the exact lookup is left out.
ResolveRoute_afterEarlier(table, method, requestPath) ==
    LET own == table[method]
        n   == ScanMethod(own, requestPath)
        a   == ScanAll(table.all, requestPath)
        fb  == WildcardFallback(table, method)
    IN  IF context # 1 /\ MapHas(own, requestPath)
        THEN [handler |-> MapGet(own, requestPath), params |-> NoParams,
              via |-> "exact", pattern |-> requestPath]
        ELSE IF n > 0
        THEN [handler |-> own[n].v,
              params |-> IF HasKeys(own[n].k)
                         THEN extractParamsFromRoute(requestPath, own[n].k, NoParams)
                         ELSE NoParams,
              via |-> "scan", pattern |-> own[n].k]
        ELSE IF a > 0
        THEN [handler |-> table.all[a].v, params |-> NoParams,
              via |-> "all", pattern |-> table.all[a].k]
        ELSE [handler |-> fb.handler, params |-> NoParams,
              via |-> fb.via, pattern |-> IF fb.via = "none" THEN <<>> ELSE STAR]

\* Route resolution of #handleRequest for a method that has a bucket: the
\* handler, the value of context.req.params afterwards, and (for the
\* properties) the stage that selected the handler and the pattern it used.
ResolveRoute(table, method, requestPath) ==
    LET own == table[method]
        n   == ScanMethod(own, requestPath)
        a   == ScanAll(table.all, requestPath)
        fb  == WildcardFallback(table, method)
    IN  IF MapHas(own, requestPath)
        THEN [handler |-> MapGet(own, requestPath), params |-> NoParams,
              via |-> "exact", pattern |-> requestPath]
        ELSE IF n > 0
        THEN [handler |-> own[n].v,
              params |-> IF HasKeys(own[n].k)
                         THEN extractParamsFromRoute(requestPath, own[n].k, NoParams)
                         ELSE NoParams,
              via |-> "scan", pattern |-> own[n].k]
        ELSE IF a > 0
        THEN [handler |-> table.all[a].v, params |-> NoParams,
              via |-> "all", pattern |-> table.all[a].k]
        ELSE [handler |-> fb.handler, params |-> NoParams,
              via |-> fb.via, pattern |-> IF fb.via = "none" THEN <<>> ELSE STAR]

(***************************************************************************)
(* The host context and its response primitives.  A body is [kind, val]:   *)
(* kind "string", "buffer" or "object" for a concrete value, "pending" for *)
(* a promise that resolves to the string val, "rejecting" for a promise    *)
(* that rejects with the error err.  Header objects are functions from     *)
(* header names to values.  Messages are sequences of tokens; an error is  *)
(* [name, message], as in `${error}` = name + ": " + message.              *)
(***************************************************************************)
NoError == [name |-> "", message |-> <<>>]

Error(message) == [name |-> "Error", message |-> message]

TypeError(message) == [name |-> "TypeError", message |-> message]

\* `${error}`
ErrorString(error) == <<error.name, ": ">> \o error.message

Body(kind, val) == [kind |-> kind, val |-> val, err |-> NoError]

Rejecting(error) == [kind |-> "rejecting", val |-> <<>>, err |-> error]

NoBody == Body("none", <<>>)

\* context.res.dynamic before any response was prepared (undefined).
NoDynamic == [set |-> FALSE, body |-> NoBody, statusCode |-> 0, headers |-> <<>>]

Descriptor(body, statusCode, headers) ==
    [set |-> TRUE, body |-> body, statusCode |-> statusCode, headers |-> headers]

\* The host's res.text / res.binary / res.send / res.json / res.redirect.
HostText(body, statusCode, headers) == Descriptor(body, statusCode, headers)

HostBinary(bytes, statusCode, headers) == Descriptor(bytes, statusCode, headers)

HostSend(body, statusCode, headers) == Descriptor(body, statusCode, headers)

HostJson(object, statusCode, headers) == HostSend(object, statusCode, headers)

HostRedirect(url, statusCode, headers) == HostSend(url, statusCode, headers)

\* { ...a, ...b }: the keys of both objects, b's values winning.
Spread(a, b) ==
    [key \in (DOMAIN a) \cup (DOMAIN b) |-> IF key \in DOMAIN b THEN b[key] ELSE a[key]]

\* obj[key] = value
SetKey(obj, key, value) ==
    [k2 \in (DOMAIN obj) \cup {key} |-> IF k2 = key THEN value ELSE obj[k2]]

Str(tokens) == Body("string", tokens)

\* The context object the host passes to attach(), with the state of the
\* AppExpressRequest and AppExpressResponse built around it: the request's
\* #requestPath and the response's #customHeaders.
NewContext(method, path, headers) ==
    [req           |-> [method |-> method, path |-> path, headers |-> headers,
                        params |-> NoParams],
     res           |-> [dynamic |-> NoDynamic],
     requestPath   |-> IF path = SLASH THEN path ELSE StripTrailingSlashes(path),
     customHeaders |-> <<>>]

\* AppExpressRequest.params: context.req.params ?? {}
RequestParams(c) == IF c.req.params.set THEN c.req.params.map ELSE <<>>

(***************************************************************************)
(* AppExpressResponse.  Every method takes the context record c and gives  *)
(* an outcome [c, error]: the context afterwards and the error thrown      *)
(* (NoError when the call returns).                                        *)
(***************************************************************************)
AlreadyPrepared == Error(<<"A response has already been prepared. Cannot initiate another response.">>)

NoViewEngine == Error(<<"No view engine found.">>)

MultipleEngines == Error(<<"You seem to have set multiple view engines; please use file paths with extension.">>)

EngineNotAFunction == TypeError(<<"engineSettings is not a function">>)

Ok(c) == [c |-> c, error |-> NoError]

Throw(c, error) == [c |-> c, error |-> error]

\* A check that never finds a prepared response.
checkIfAlreadyPrepared_never(c) == FALSE

\* #checkIfAlreadyPrepared: whether context.res.dynamic is already set.
checkIfAlreadyPrepared(c) == c.res.dynamic.set

\* #wrapReturnForSource(data)
wrapReturnForSource(c, data) ==
    IF checkIfAlreadyPrepared(c) THEN Throw(c, AlreadyPrepared)
    ELSE Ok([c EXCEPT !.res.dynamic = data])

\* response.empty()
empty(c) == wrapReturnForSource(c, HostText(Str(<<>>), 204, c.customHeaders))

\* response.json(data, statusCode)
json(c, data, statusCode) ==
    wrapReturnForSource(c, HostJson(Body("object", data), statusCode, c.customHeaders))

\* response.redirect(url)
redirect(c, url) == wrapReturnForSource(c, HostRedirect(Str(url), 301, c.customHeaders))

\* response.text(content, statusCode, contentType)
text(c, content, statusCode, contentType) ==
    wrapReturnForSource(c, HostText(Str(content), statusCode,
                           Spread([h \in {"content-type"} |-> contentType], c.customHeaders)))

\* response.send(content, statusCode, contentType)
send(c, content, statusCode, contentType) ==
    wrapReturnForSource(c, HostSend(Str(content), statusCode,
                           Spread([h \in {"content-type"} |-> contentType], c.customHeaders)))

\* #wrapForPromise(promise, statusCode)
wrapForPromise(c, promise, statusCode) ==
    wrapReturnForSource(c, HostBinary(promise, statusCode, c.customHeaders))

\* response.binary(contentOrPath, statusCode, contentType).  source tells what
\* is passed: "buffer" for a Buffer, "file" for the path of a readable file
\* (mime type text/plain), "missing" for a path #readFile cannot read.
binary(c, content, source, statusCode, contentType) ==
    LET c1      == [c EXCEPT !.customHeaders = SetKey(@, "content-type", contentType)]
        promise == IF source = "buffer" THEN Body("buffer", content)
                   ELSE IF source = "file" THEN Body("pending", content)
                   ELSE Rejecting(Error(<<"ENOENT: no such file or directory">>))
        tried   == wrapForPromise(c1, promise, statusCode)
    IN  IF tried.error = NoError THEN tried
        ELSE text(tried.c, <<"Internal Server Error">>, 500, "text/plain")

\* response.render(filePath, options, statusCode).  ext is the extension of
\* filePath ("" when it has none); engines is context.res._engine.
render(c, engines, content, ext, statusCode) ==
    IF Len(engines) = 0 THEN Throw(c, NoViewEngine)
    ELSE IF ext = "" /\ Len(engines) # 1 THEN Throw(c, MultipleEngines)
    ELSE LET fileExtension == IF ext = "" THEN engines[1].k ELSE ext
             promise == IF ~MapHas(engines, fileExtension)
                        THEN Rejecting(EngineNotAFunction)
                        ELSE IF MapGet(engines, fileExtension) = "failing"
                        THEN Rejecting(Error(<<"engine failure">>))
                        ELSE Body("pending", content)
             c1      == [c EXCEPT !.customHeaders = SetKey(@, "content-type", "text/html")]
             tried   == wrapReturnForSource(c1, HostBinary(promise, statusCode, c1.customHeaders))
         IN  IF tried.error = NoError THEN tried
             ELSE text(tried.c, <<"Internal Server Error">>, 500, "text/plain")

(***************************************************************************)
(* Dependency injection.  An instance is named by a string; its class name *)
(* (object.constructor.name) is TypeName of it.                            *)
(***************************************************************************)
TypeName(object) ==
    IF object \in {"repositoryOne", "repositoryTwo"} THEN "LoremIpsumRepository" ELSE "Service"

\* A key that leaves the identifier out.
DependencyKey_typeOnly(objectName, identifier) == <<objectName>>

\* identifier ? `${objectName}:${identifier}` : objectName
DependencyKey(objectName, identifier) ==
    IF identifier # "" THEN <<objectName, ":", identifier>> ELSE <<objectName>>

AlreadyInjected(objectName, identifier) ==
    IF identifier # ""
    THEN Error(<<"An instance of '", objectName, "' with identifier '", identifier, "' is already injected.">>)
    ELSE Error(<<"An instance of '", objectName, "' is already injected.">>)

NoInstanceFound(objectName, identifier) ==
    IF identifier # ""
    THEN Error(<<"No instance found for '", objectName, "' with identifier '", identifier, "'.">>)
    ELSE Error(<<"No instance found for '", objectName, "'.">>)

\* An inject that sets the key whether or not it is present.
inject_overwrite(registry, object, identifier) ==
    [registry |-> MapSet(registry, DependencyKey(TypeName(object), identifier),
                         [type |-> TypeName(object), instance |-> object]),
     error |-> NoError]

\* AppExpress.inject(object, identifier): the registry afterwards and the error thrown.
inject(registry, object, identifier) ==
    LET objectName == TypeName(object)
        key        == DependencyKey(objectName, identifier)
    IN  IF MapHas(registry, key)
        THEN [registry |-> registry, error |-> AlreadyInjected(objectName, identifier)]
        ELSE [registry |-> MapSet(registry, key, [type |-> objectName, instance |-> object]),
              error |-> NoError]

\* AppExpressRequest.retrieve(type, identifier): the instance returned or the error thrown.
retrieve(registry, objectName, identifier) ==
    LET key == DependencyKey(objectName, identifier)
    IN  IF ~MapHas(registry, key)
        THEN [instance |-> "", error |-> NoInstanceFound(objectName, identifier)]
        ELSE [instance |-> MapGet(registry, key).instance, error |-> NoError]

\* String.prototype.toLowerCase / toUpperCase on the method names used.
ToLowerCase(m) ==
    CASE m \in {"GET", "get"} -> "get"
      [] m \in {"POST", "post"} -> "post"
      [] m \in {"PUT", "put"} -> "put"
      [] m \in {"PATCH", "patch"} -> "patch"
      [] m \in {"DELETE", "delete"} -> "delete"
      [] m \in {"OPTIONS", "options"} -> "options"
      [] m \in {"HEAD", "head"} -> "head"
      [] m \in {"ALL", "all"} -> "all"
      [] OTHER -> m

ToUpperCase(m) ==
    CASE m \in {"GET", "get"} -> "GET"
      [] m \in {"POST", "post"} -> "POST"
      [] m \in {"PUT", "put"} -> "PUT"
      [] m \in {"PATCH", "patch"} -> "PATCH"
      [] m \in {"DELETE", "delete"} -> "DELETE"
      [] m \in {"OPTIONS", "options"} -> "OPTIONS"
      [] m \in {"HEAD", "head"} -> "HEAD"
      [] m \in {"ALL", "all"} -> "ALL"
      [] OTHER -> m

\* AppExpressRequest.method
RequestMethod(c) == ToLowerCase(c.req.method)

(***************************************************************************)
(* User callbacks.  A route handler or an incoming middleware is a program:*)
(* a sequence of statements [op, x, y, s] run in order until one throws.   *)
(*   send/text/json/redirect/empty/binary/render: the response method, with*)
(*     content x and status s (binary: y is the source, render: y is the   *)
(*     extension of the file path);                                        *)
(*   throw: throw new Error(x);                                            *)
(*   setHeaders: response.setHeaders({ [x[1]]: y }), y a string;           *)
(*   static: the middleware of static(), for a directory whose one file is *)
(*     a text file served at the path x;                                   *)
(*   await: the callback awaits a promise that is still pending;           *)
(*   retrieveSend: response.send(request.retrieve(x[1], y)).               *)
(***************************************************************************)
RunStmt(c, registry, engines, st) ==
    CASE st.op = "send"     -> send(c, st.x, st.s, "text/plain")
      [] st.op = "text"     -> text(c, st.x, st.s, "text/plain")
      [] st.op = "json"     -> json(c, st.x, st.s)
      [] st.op = "redirect" -> redirect(c, st.x)
      [] st.op = "empty"    -> empty(c)
      [] st.op = "binary"   -> binary(c, st.x, st.y, st.s, "text/plain")
      [] st.op = "render"   -> render(c, engines, st.x, st.y, st.s)
      [] st.op = "throw"    -> Throw(c, Error(st.x))
      [] st.op = "setHeaders" -> Ok([c EXCEPT !.customHeaders = SetKey(@, st.x[1], st.y)])
      [] st.op = "static"   ->
            IF RequestMethod(c) = "get" /\ c.requestPath = st.x
            THEN text(c, <<"file">>, 200, "text/plain")
            ELSE Ok(c)
      [] st.op = "retrieveSend" ->
            LET got == retrieve(registry, st.x[1], st.y)
            IN  IF got.error # NoError THEN Throw(c, got.error)
                ELSE send(c, <<got.instance>>, st.s, "text/plain")
      [] OTHER -> Ok(c)

RECURSIVE RunProgram(_, _, _, _)
RunProgram(c, registry, engines, prog) ==
    IF prog = <<>> THEN Ok(c)
    ELSE LET first == RunStmt(c, registry, engines, Head(prog))
         IN  IF first.error # NoError THEN first
             ELSE RunProgram(first.c, registry, engines, Tail(prog))

(***************************************************************************)
(* Outgoing middleware: programs of statements run on the descriptor.      *)
(*   poweredBy: the built-in interceptor, #addPoweredByHeader;             *)
(*   setHeader: interceptor.headers[x[1]] = y;  setBody: interceptor.body =*)
(*   x;  setStatus: interceptor.statusCode = s;  throw: throw new Error(x).*)
(***************************************************************************)
\* A stamp that overwrites whatever the response carries.
addPoweredByHeader_always(dynamic, showPoweredBy) ==
    [dynamic EXCEPT !.headers = SetKey(@, "X-Powered-By", "AppExpress")]

\* #addPoweredByHeader(dynamic)
addPoweredByHeader(dynamic, showPoweredBy) ==
    IF showPoweredBy /\ ~("X-Powered-By" \in DOMAIN dynamic.headers
                          /\ dynamic.headers["X-Powered-By"] # "")
    THEN [dynamic EXCEPT !.headers = SetKey(@, "X-Powered-By", "AppExpress")]
    ELSE dynamic

\* Interceptors handed a copy of the descriptor: what they change is lost.
RunInterceptorStmt_onCopy(dynamic, showPoweredBy, st) ==
    [d |-> dynamic, error |-> IF st.op = "throw" THEN Error(st.x) ELSE NoError]

RunInterceptorStmt(dynamic, showPoweredBy, st) ==
    CASE st.op = "poweredBy" -> [d |-> addPoweredByHeader(dynamic, showPoweredBy), error |-> NoError]
      [] st.op = "setHeader" -> [d |-> [dynamic EXCEPT !.headers = SetKey(@, st.x[1], st.y)], error |-> NoError]
      [] st.op = "setBody"   -> [d |-> [dynamic EXCEPT !.body = Str(st.x)], error |-> NoError]
      [] st.op = "setStatus" -> [d |-> [dynamic EXCEPT !.statusCode = st.s], error |-> NoError]
      [] st.op = "throw"     -> [d |-> dynamic, error |-> Error(st.x)]
      [] OTHER -> [d |-> dynamic, error |-> NoError]

RECURSIVE RunInterceptor(_, _, _)
RunInterceptor(dynamic, showPoweredBy, prog) ==
    IF prog = <<>> THEN [d |-> dynamic, error |-> NoError]
    ELSE LET first == RunInterceptorStmt(dynamic, showPoweredBy, Head(prog))
         IN  IF first.error # NoError THEN first
             ELSE RunInterceptor(first.d, showPoweredBy, Tail(prog))

\* The interceptor the constructor registers (appexpress.ts:168-174).
PoweredByInterceptor == <<Stmt("poweredBy", <<>>, "", 0)>>

(***************************************************************************)
(* The state machine.                                                      *)
(***************************************************************************)
\* The number of invocation slots (contexts alive at the same time).
NInv == 2

Inv == 1..NInv

\* The bounds on what is registered.
MaxRoutes == 3

MaxIncoming == 2

MaxOutgoing == 3

MaxEngines == 2

\* The locals of #handleRequest / #processHandlerResult for one invocation,
\* and what the invocation gave back to the host: pc "returned" with the
\* descriptor result, or pc "thrown" with error.  History: outcome names the
\* return statement that gave result ("response", "notFound", "invalidReturn"
\* or "error"), and trace lists the callbacks this invocation ran.  While the
\* loop awaits a middleware that is suspended at an await of its own,
\* awaiting is TRUE and rest is what the middleware still has to run.
IdleInv ==
    [pc |-> "idle", routeHandler |-> UndefinedHandler, via |-> "none", pattern |-> <<>>,
     idx |-> 0, jdx |-> 0, dyn |-> 0, result |-> NoDynamic, error |-> NoError,
     outcome |-> "", trace |-> <<>>, awaiting |-> FALSE, rest |-> <<>>, bound |-> 0]

\* A slot that holds no context.
NoContext == NewContext("", <<>>, <<>>)

\* The value of #compression: true or false, or a CompressionHandler with
\* its set of encodings (in insertion order).
CompressionValue(enabled) == [enabled |-> enabled, handler |-> FALSE, encodings |-> <<>>]

CompressionHandler(encodings) == [enabled |-> TRUE, handler |-> TRUE, encodings |-> encodings]

\* A JavaScript value used as a compression level: a number v, NaN, or
\* undefined (the value of a key the options object does not have).
Number(v) == [t |-> "number", v |-> v]

NaN == [t |-> "NaN", v |-> 0]

Undefined == [t |-> "undefined", v |-> 0]

\* An options object: the number of its own keys and the values of
\* options.br, options.gzip and options.deflate.
Options(keys, br, gzip, deflate) == [keys |-> keys, br |-> br, gzip |-> gzip, deflate |-> deflate]

\* The default of the options parameter and of #compressionLevel.
DefaultOptions == Options(3, Number(11), Number(6), Number(6))

\* One entry of trace: the callback that ran, the request.params it saw,
\* whether a response was prepared when it ended, and the error it threw.
Ran(kind, n, prog, c, responded, error) ==
    [kind |-> kind, n |-> n, prog |-> prog, params |-> RequestParams(c),
     responded |-> responded, error |-> error]

Init ==
    /\ routes = requestMethods
    /\ router = [empty |-> TRUE, internalRoutes |-> requestMethods]
    /\ middlewares = [incoming |-> <<>>, outgoing |-> <<PoweredByInterceptor>>]
    /\ dependencies = EmptyMap
    /\ engine = EmptyMap
    /\ config = [showPoweredBy |-> TRUE, compression |-> CompressionValue(TRUE),
                 compressionLevel |-> DefaultOptions]
    /\ context = 0
    /\ ctx = [i \in Inv |-> NoContext]
    /\ inv = [i \in Inv |-> IdleInv]
    /\ injected = {}
    /\ lastCall = [op |-> "", error |-> NoError]

\* No invocation is in progress or waiting for the host to take its outcome.
Quiescent == \A i \in Inv : inv[i].pc = "idle"

RouteCount(table) == Len(table.get) + Len(table.post) + Len(table.put) + Len(table.patch)
                     + Len(table.delete) + Len(table.options) + Len(table.all)

SetupVars == <<context, ctx, inv>>

Called(op, error) == lastCall' = [op |-> op, error |-> error]

\* get / post / put / patch / delete / options / all (path, handler)
Register(bucket, path, handler) ==
    /\ Quiescent
    /\ RouteCount(routes) < MaxRoutes \/ MapHas(routes[bucket], path)
    /\ routes' = [routes EXCEPT ![bucket] = MapSet(@, path, handler)]
    /\ Called("route", NoError)
    /\ UNCHANGED <<router, middlewares, dependencies, engine, config, injected>>
    /\ UNCHANGED SetupVars

\* new AppExpress.Router()
NewRouter ==
    /\ Quiescent
    /\ ~router.empty
    /\ router' = [empty |-> TRUE, internalRoutes |-> requestMethods]
    /\ Called("router", NoError)
    /\ UNCHANGED <<routes, middlewares, dependencies, engine, config, injected>>
    /\ UNCHANGED SetupVars

\* Router.get / post / ... / all (path, handler), with #toggleEmpty
RouterRegister(bucket, path, handler) ==
    /\ Quiescent
    /\ RouteCount(router.internalRoutes) < MaxRoutes \/ MapHas(router.internalRoutes[bucket], path)
    /\ router' = [empty |-> FALSE,
                  internalRoutes |-> [router.internalRoutes EXCEPT ![bucket] = MapSet(@, path, handler)]]
    /\ Called("router.route", NoError)
    /\ UNCHANGED <<routes, middlewares, dependencies, engine, config, injected>>
    /\ UNCHANGED SetupVars

\* methodRoutes.forEach(...) of use(): every route of one bucket of the
\* router, from position n on, set in the application's bucket.
RECURSIVE MountBucket(_, _, _, _)
MountBucket(own, methodRoutes, path, n) ==
    IF n > Len(methodRoutes) THEN own
    ELSE MountBucket(MapSet(own, normalizePath(path, methodRoutes[n].k), methodRoutes[n].v),
                     methodRoutes, path, n + 1)

\* The route table after use(path, router) of a router that has routes.
Mount(table, internalRoutes, path) ==
    [b \in Buckets |-> MountBucket(table[b], internalRoutes[b], path, 1)]

NoRoutesDefined(path) == Error(<<"No routes defined for path '">> \o path \o <<"'.">>)

\* A use() that mounts whatever the router holds, without the config.empty
\* check.
Use_unchecked(path) ==
    /\ Quiescent
    /\ RouteCount(Mount(routes, router.internalRoutes, path)) <= MaxRoutes
    /\ routes' = Mount(routes, router.internalRoutes, path)
    /\ Called("use", NoError)
    /\ UNCHANGED <<router, middlewares, dependencies, engine, config, injected>>
    /\ UNCHANGED SetupVars

\* use(path, router)
Use(path) ==
    /\ Quiescent
    /\ IF router.empty
       THEN /\ Called("use", NoRoutesDefined(path))
            /\ UNCHANGED routes
       ELSE /\ RouteCount(Mount(routes, router.internalRoutes, path)) <= MaxRoutes
            /\ routes' = Mount(routes, router.internalRoutes, path)
            /\ Called("use", NoError)
    /\ UNCHANGED <<router, middlewares, dependencies, engine, config, injected>>
    /\ UNCHANGED SetupVars

\* middleware(fn) and middleware({ incoming })
MiddlewareIncoming(prog) ==
    /\ Quiescent
    /\ Len(middlewares.incoming) < MaxIncoming
    /\ middlewares' = [middlewares EXCEPT !.incoming = Append(@, prog)]
    /\ Called("middleware", NoError)
    /\ UNCHANGED <<routes, router, dependencies, engine, config, injected>>
    /\ UNCHANGED SetupVars

\* static(directory): the middleware that serves the file at the path file.
Static(file) ==
    /\ Quiescent
    /\ Len(middlewares.incoming) < MaxIncoming
    /\ middlewares' = [middlewares EXCEPT !.incoming =
                          Append(@, <<Stmt("static", file, "", 0)>>)]
    /\ Called("static", NoError)
    /\ UNCHANGED <<routes, router, dependencies, engine, config, injected>>
    /\ UNCHANGED SetupVars

\* middleware({ outgoing })
MiddlewareOutgoing(prog) ==
    /\ Quiescent
    /\ Len(middlewares.outgoing) < MaxOutgoing
    /\ middlewares' = [middlewares EXCEPT !.outgoing = Append(@, prog)]
    /\ Called("middleware", NoError)
    /\ UNCHANGED <<routes, router, dependencies, engine, config, injected>>
    /\ UNCHANGED SetupVars

\* engine(ext, engine): kind tells whether the engine renders or fails.
Engine(ext, kind) ==
    /\ Quiescent
    /\ Len(engine) < MaxEngines \/ MapHas(engine, ext)
    /\ engine' = MapSet(engine, ext, kind)
    /\ Called("engine", NoError)
    /\ UNCHANGED <<routes, router, middlewares, dependencies, config, injected>>
    /\ UNCHANGED SetupVars

\* poweredByHeader(value)
PoweredByHeader(value) ==
    /\ Quiescent
    /\ config' = [config EXCEPT !.showPoweredBy = value]
    /\ Called("poweredByHeader", NoError)
    /\ UNCHANGED <<routes, router, middlewares, dependencies, engine, injected>>
    /\ UNCHANGED SetupVars

\* encoding < min and encoding > max of JavaScript: false for NaN and for
\* undefined, which converts to NaN.
LessThan(encoding, min) == encoding.t = "number" /\ encoding.v < min

GreaterThan(encoding, max) == encoding.t = "number" /\ encoding.v > max

\* #validateCompression(encoding, min, max): the error thrown, if any.
validateCompression(encoding, min, max) ==
    IF LessThan(encoding, min) \/ GreaterThan(encoding, max)
    THEN Error(<<"Invalid compression level provided.">>)
    ELSE NoError

MissingOptions ==
    Error(<<"Please provide compression level options for all the supported encodings.">>)

\* compression(value, options): the number of keys is checked, #compression
\* is assigned, the three levels are validated in turn, and only then
\* #compressionLevel is assigned.
CompressionLevels(value, options) ==
    LET invalid == IF validateCompression(options.br, 1, 11) # NoError
                   THEN validateCompression(options.br, 1, 11)
                   ELSE IF validateCompression(options.gzip, 1, 9) # NoError
                   THEN validateCompression(options.gzip, 1, 9)
                   ELSE validateCompression(options.deflate, 1, 9)
    IN  /\ Quiescent
        /\ IF options.keys # 3
           THEN /\ UNCHANGED config
                /\ Called("compression", MissingOptions)
           ELSE IF invalid # NoError
           THEN /\ config' = [config EXCEPT !.compression = value]
                /\ Called("compression", invalid)
           ELSE /\ config' = [config EXCEPT !.compression = value,
                                            !.compressionLevel = options]
                /\ Called("compression", NoError)
        /\ UNCHANGED <<routes, router, middlewares, dependencies, engine, injected>>
        /\ UNCHANGED SetupVars

\* compression(value), with the default levels
Compression(value) == CompressionLevels(value, DefaultOptions)

\* inject(object, identifier)
Inject(object, identifier) ==
    LET done == inject(dependencies, object, identifier)
    IN  /\ Quiescent
        /\ dependencies' = done.registry
        /\ injected' = IF done.error = NoError
                       THEN injected \cup {<<object, identifier>>}
                       ELSE injected
        /\ Called("inject", done.error)
        /\ UNCHANGED <<routes, router, middlewares, engine, config>>
        /\ UNCHANGED SetupVars

(***************************************************************************)
(* One invocation: attach(context) and #handleRequest.                     *)
(***************************************************************************)
\* this.#routes[method] is undefined: reading .get of it throws.
UndefinedBucket == TypeError(<<"Cannot read properties of undefined (reading 'get')">>)

CannotMessage(c) ==
    <<"Cannot ", ToUpperCase(RequestMethod(c)), " '">> \o c.requestPath \o <<"'.">>

\* A handler without a response answered like a path without a route.
InvalidReturn_asNotFound(c) == CannotMessage(c)

InvalidReturn(c) ==
    <<"Invalid return from route ">> \o c.requestPath
        \o <<". Use 'response.empty()' if no response is expected.">>

\* An error descriptor that carries the X-Powered-By header too.
sendErrorResult_stamped(error) ==
    HostSend(Str(error), 500,
             [h \in {"content-type", "X-Powered-By"} |->
                 IF h = "content-type" THEN "text/plain" ELSE "AppExpress"])

\* #sendErrorResult(error): the descriptor res.send gives.
sendErrorResult(error) ==
    HostSend(Str(error), 500, [h \in {"content-type"} |-> "text/plain"])

\* A check that never sees the response: no break after a middleware.
contextHasReturn_never(c) == FALSE

\* #contextHasReturn()
contextHasReturn(c) == c.res.dynamic.set

\* isCompressible(contentType), on the content types the model uses;
\* "undefined" stands for a descriptor without a content-type header.
isCompressible(contentType) ==
    contentType \in {"text/plain", "text/html", "text/css", "application/json", "image/svg+xml"}

\* headers['content-type']
ContentType(headers) ==
    IF "content-type" \in DOMAIN headers THEN headers["content-type"] ELSE "undefined"

\* #updateDynamic(dynamic, headers, body)
updateDynamic(dynamic, headers, body) ==
    [dynamic EXCEPT !.body = body,
                    !.headers = SetKey(headers, "content-length", Len(body.val))]

\* A header value is a sequence of tokens: the names of encodings, "," and
\* " ".  acceptEncoding.split(','): the pieces between the commas.
RECURSIVE SplitComma(_)
SplitComma(s) ==
    IF \A k \in 1..Len(s) : s[k] # "," THEN <<s>>
    ELSE LET k == CHOOSE j \in 1..Len(s) : s[j] = "," /\ \A m \in 1..(j - 1) : s[m] # ","
         IN  <<SubSeq(s, 1, k - 1)>> \o SplitComma(SubSeq(s, k + 1, Len(s)))

\* String.prototype.trim
RECURSIVE Trim(_)
Trim(s) ==
    IF s # <<>> /\ Head(s) = " " THEN Trim(Tail(s))
    ELSE IF s # <<>> /\ s[Len(s)] = " " THEN Trim(SubSeq(s, 1, Len(s) - 1))
    ELSE s

\* acceptEncoding.split(',').map((enc) => enc.trim())
ParseEncodings(acceptEncoding) ==
    LET pieces == SplitComma(acceptEncoding)
    IN  [n \in 1..Len(pieces) |-> Trim(pieces[n])]

\* Array.from(compressorEncodings).join(', ')
RECURSIVE Join(_)
Join(names) ==
    IF names = <<>> THEN <<>>
    ELSE IF Len(names) = 1 THEN <<names[1]>>
    ELSE <<names[1], ",", " ">> \o Join(Tail(names))

\* zlib's brotliCompressSync / gzipSync / deflateSync of a buffer.
Zlib(encoding, buffer) == Body("buffer", <<encoding>> \o buffer.val)

\* The result of a decompression that fails: the input is not in the format
\* of the algorithm.
NotDecompressed == Body("none", <<>>)

\* zlib's brotliDecompressSync / gunzipSync / inflateSync of a buffer: the
\* bytes that were compressed, for a buffer the same algorithm produced.
Unzip(encoding, buffer) ==
    IF buffer.kind = "buffer" /\ buffer.val # <<>> /\ Head(buffer.val) = encoding
    THEN Body("buffer", Tail(buffer.val))
    ELSE NotDecompressed

\* compressor.compress(buffer, log, error) of a custom handler.
CustomCompress(buffer) == Body("buffer", <<"custom">> \o buffer.val)

\* A default compression that takes the first encoding the client lists.
defaultCompression_firstListed(encodings, dynamic) ==
    LET known == {n \in 1..Len(encodings) :
                     encodings[n] \in {<<"br">>, <<"gzip">>, <<"deflate">>}}
        first == CHOOSE n \in known : \A m \in known : n <= m
    IN  IF ~isCompressible(ContentType(dynamic.headers)) THEN dynamic
        ELSE IF known = {} THEN dynamic
        ELSE updateDynamic(dynamic,
                           SetKey(dynamic.headers, "content-encoding", encodings[first]),
                           Zlib(encodings[first][1], dynamic.body))

\* A default compression that names the chosen encoding in content-encoding
\* and compresses with gzip whatever was chosen.
defaultCompression_alwaysGzip(encodings, dynamic) ==
    LET listed(e) == \E n \in 1..Len(encodings) : encodings[n] = <<e>>
        chosen    == IF listed("br") THEN "br"
                     ELSE IF listed("gzip") THEN "gzip"
                     ELSE IF listed("deflate") THEN "deflate" ELSE ""
    IN  IF ~isCompressible(ContentType(dynamic.headers)) THEN dynamic
        ELSE IF chosen = "" THEN dynamic
        ELSE updateDynamic(dynamic, SetKey(dynamic.headers, "content-encoding", <<chosen>>),
                           Zlib("gzip", dynamic.body))

\* #defaultCompression(encodings, headers, buffer, dynamic)
defaultCompression(encodings, dynamic) ==
    LET listed(e) == \E n \in 1..Len(encodings) : encodings[n] = <<e>>
        chosen    == IF listed("br") THEN "br"
                     ELSE IF listed("gzip") THEN "gzip"
                     ELSE IF listed("deflate") THEN "deflate" ELSE ""
    IN  IF ~isCompressible(ContentType(dynamic.headers)) THEN dynamic
        ELSE IF chosen = "" THEN dynamic
        ELSE updateDynamic(dynamic, SetKey(dynamic.headers, "content-encoding", <<chosen>>),
                           Zlib(chosen, dynamic.body))

\* A custom compression applied whatever the client accepts.
userCompression_anyEncoding(compression, encodings, dynamic) ==
    IF compression.handler /\ isCompressible(ContentType(dynamic.headers))
    THEN [applied |-> TRUE,
          d |-> updateDynamic(dynamic,
                              SetKey(dynamic.headers, "content-encoding",
                                     Join(compression.encodings)),
                              CustomCompress(dynamic.body))]
    ELSE [applied |-> FALSE, d |-> dynamic]

\* #userCompression(encodings, headers, buffer, dynamic): whether the custom
\* handler compressed, and the descriptor afterwards.
userCompression(compression, encodings, dynamic) ==
    LET supported == \E n \in 1..Len(encodings) :
                         \E m \in 1..Len(compression.encodings) :
                             encodings[n] = <<compression.encodings[m]>>
    IN  IF ~compression.handler THEN [applied |-> FALSE, d |-> dynamic]
        ELSE IF ~supported \/ ~isCompressible(ContentType(dynamic.headers))
        THEN [applied |-> FALSE, d |-> dynamic]
        ELSE [applied |-> TRUE,
              d |-> updateDynamic(dynamic,
                                  SetKey(dynamic.headers, "content-encoding",
                                         Join(compression.encodings)),
                                  CustomCompress(dynamic.body))]

\* A compression without its checks: gzip for every response.
compress_unchecked(dynamic, compression, reqHeaders) ==
    updateDynamic(dynamic, SetKey(dynamic.headers, "content-encoding", <<"gzip">>),
                  Zlib("gzip", [dynamic.body EXCEPT !.val = IF dynamic.body.kind = "object"
                                                             THEN <<>> ELSE @]))

\* #compress(dynamic)
compress(dynamic, compression, reqHeaders) ==
    IF ~compression.enabled THEN dynamic
    ELSE IF ~("accept-encoding" \in DOMAIN reqHeaders) THEN dynamic
    ELSE IF reqHeaders["accept-encoding"] = <<>> THEN dynamic
    ELSE IF dynamic.body.kind \notin {"buffer", "string"} THEN dynamic
    ELSE LET encodings == ParseEncodings(reqHeaders["accept-encoding"])
             user      == userCompression(compression, encodings, dynamic)
         IN  IF user.applied THEN user.d ELSE defaultCompression(encodings, dynamic)

\* attach(context) and #handleRequest up to the incoming middlewares: the
\* request and response are built and the route is resolved.
Attach(i, method, path, headers) ==
    LET c0 == NewContext(method, path, headers)
        r  == ResolveRoute(routes, RequestMethod(c0), c0.requestPath)
    IN  /\ inv[i].pc = "idle"
        /\ \A j \in 1..(i - 1) : inv[j].pc # "idle"
        /\ context' = i
        /\ IF RequestMethod(c0) \notin Buckets
           THEN /\ ctx' = [ctx EXCEPT ![i] = c0]
                /\ inv' = [inv EXCEPT ![i] = [IdleInv EXCEPT !.pc = "thrown",
                                                             !.error = UndefinedBucket]]
           ELSE /\ ctx' = [ctx EXCEPT ![i] = [c0 EXCEPT !.req.params = r.params]]
                /\ inv' = [inv EXCEPT ![i] = [IdleInv EXCEPT !.pc = "incoming",
                                                             !.routeHandler = r.handler,
                                                             !.via = r.via,
                                                             !.pattern = r.pattern,
                                                             !.idx = 1]]
        /\ Called("attach", NoError)
        /\ UNCHANGED <<routes, router, middlewares, dependencies, engine, config, injected>>

\* A loop that catches what a middleware throws and goes on.
AfterIncoming_swallow(l, out) ==
    IF out.c.res.dynamic.set THEN [l EXCEPT !.pc = "process"]
    ELSE [l EXCEPT !.idx = @ + 1]

\* The locals after `await middleware(...)`: an error leaves #handleRequest,
\* else #contextHasReturn() decides whether the loop breaks.
AfterIncoming(l, out) ==
    IF out.error # NoError THEN [l EXCEPT !.pc = "thrown", !.error = out.error]
    ELSE IF contextHasReturn(out.c) THEN [l EXCEPT !.pc = "process"]
    ELSE [l EXCEPT !.idx = @ + 1]

\* The locals after `await routeHandler(...)`.
AfterHandler(l, out) ==
    IF out.error # NoError THEN [l EXCEPT !.pc = "thrown", !.error = out.error]
    ELSE [l EXCEPT !.pc = "process"]

\* What an async callback runs before its first `await` of something that
\* is not settled yet, and what it runs once it is resumed.
RECURSIVE UpToAwait(_)
UpToAwait(prog) ==
    IF prog = <<>> \/ Head(prog).op = "await" THEN <<>>
    ELSE <<Head(prog)>> \o UpToAwait(Tail(prog))

AfterAwait(prog) == SubSeq(prog, Len(UpToAwait(prog)) + 2, Len(prog))

Suspends(prog) == Len(UpToAwait(prog)) < Len(prog)

\* A loop that calls the middleware without `await`: it goes on to the next
\* one while the promise of this one is pending.
Suspend_notAwaited(l, rest) == [l EXCEPT !.idx = @ + 1]

\* The locals while `await middleware(...)` waits for a pending promise.
Suspend(l, rest) == [l EXCEPT !.awaiting = TRUE, !.rest = rest]

\* One turn of the loop over #middlewares.incoming: the middleware is called
\* and runs to its end, or to its first await.
Incoming(i) ==
    LET prog == middlewares.incoming[inv[i].idx]
        c    == ctx[context]
        out  == RunProgram(c, dependencies, engine, UpToAwait(prog))
        ran  == Append(inv[i].trace, Ran("incoming", inv[i].idx, prog, c,
                                         out.c.res.dynamic.set, out.error))
        started == Append(inv[i].trace, Ran("started", inv[i].idx, prog, c,
                                            out.c.res.dynamic.set, NoError))
    IN  /\ inv[i].pc = "incoming"
        /\ ~inv[i].awaiting
        /\ inv[i].idx <= Len(middlewares.incoming)
        /\ ctx' = [ctx EXCEPT ![context] = out.c]
        /\ inv' = [inv EXCEPT ![i] =
                     IF out.error = NoError /\ Suspends(prog)
                     THEN Suspend([@ EXCEPT !.trace = started, !.bound = context],
                                  AfterAwait(prog))
                     ELSE AfterIncoming([@ EXCEPT !.trace = ran], out)]
        /\ UNCHANGED <<routes, router, middlewares, dependencies, engine, config, context,
                       injected, lastCall>>

\* The suspended middleware is resumed and runs to its end or to its next
\* await, on the request and response it was called with (bound); when it
\* ends, `await middleware(...)` of the loop ends and #contextHasReturn()
\* looks at this.#context.
Resume(i) ==
    LET prog  == middlewares.incoming[inv[i].idx]
        c     == ctx[inv[i].bound]
        out   == RunProgram(c, dependencies, engine, UpToAwait(inv[i].rest))
        ran   == Append(inv[i].trace, Ran("incoming", inv[i].idx, prog, c,
                                          out.c.res.dynamic.set, out.error))
        after == [ctx EXCEPT ![inv[i].bound] = out.c]
    IN  /\ inv[i].pc = "incoming"
        /\ inv[i].awaiting
        /\ ctx' = after
        /\ inv' = [inv EXCEPT ![i] =
                     IF out.error = NoError /\ Suspends(inv[i].rest)
                     THEN [@ EXCEPT !.rest = AfterAwait(inv[i].rest)]
                     ELSE AfterIncoming([@ EXCEPT !.trace = ran, !.awaiting = FALSE,
                                                  !.rest = <<>>, !.bound = 0],
                                        [out EXCEPT !.c = after[context]])]
        /\ UNCHANGED <<routes, router, middlewares, dependencies, engine, config, context,
                       injected, lastCall>>

\* After the loop: the route handler is awaited, or the route-not-found
\* descriptor is returned.
Handle(i) ==
    LET c   == ctx[context]
        out == RunProgram(c, dependencies, engine, inv[i].routeHandler)
        ran == Append(inv[i].trace, Ran("handler", 0, inv[i].routeHandler, c,
                                        out.c.res.dynamic.set, out.error))
    IN  /\ inv[i].pc = "incoming"
        /\ ~inv[i].awaiting
        /\ inv[i].idx > Len(middlewares.incoming)
        /\ IF contextHasReturn(c)
           THEN /\ inv' = [inv EXCEPT ![i].pc = "process"]
                /\ UNCHANGED ctx
           ELSE IF inv[i].routeHandler # UndefinedHandler
           THEN /\ ctx' = [ctx EXCEPT ![context] = out.c]
                /\ inv' = [inv EXCEPT ![i] = AfterHandler([@ EXCEPT !.trace = ran], out)]
           ELSE /\ inv' = [inv EXCEPT ![i].pc = "returned",
                                      ![i].outcome = "notFound",
                                      ![i].result = sendErrorResult(CannotMessage(c))]
                /\ UNCHANGED ctx
        /\ UNCHANGED <<routes, router, middlewares, dependencies, engine, config, context,
                       injected, lastCall>>

\* A finalization that passes the body on as it is, promise or not.
AwaitBody_notAwaited(body) == body

\* dynamic.body = await dynamic.body
AwaitBody(body) ==
    IF body.kind = "pending" THEN Str(body.val) ELSE body

\* A finalization that compresses the awaited body before the outgoing
\* middlewares run.
Process_compressFirst(i) ==
    LET c == ctx[context]
    IN  /\ inv[i].pc = "process"
        /\ IF ~contextHasReturn(c)
           THEN /\ inv' = [inv EXCEPT ![i].pc = "returned",
                                      ![i].outcome = "invalidReturn",
                                      ![i].result = sendErrorResult(InvalidReturn(c))]
                /\ UNCHANGED ctx
           ELSE IF c.res.dynamic.body.kind = "rejecting"
           THEN /\ inv' = [inv EXCEPT ![i].pc = "returned",
                                      ![i].dyn = context,
                                      ![i].outcome = "error",
                                      ![i].result =
                                          sendErrorResult(ErrorString(c.res.dynamic.body.err))]
                /\ UNCHANGED ctx
           ELSE /\ ctx' = [ctx EXCEPT ![context].res.dynamic =
                              compress([@ EXCEPT !.body = AwaitBody(@)], config.compression,
                                       c.req.headers)]
                /\ inv' = [inv EXCEPT ![i].pc = "outgoing", ![i].dyn = context, ![i].jdx = 1]
        /\ UNCHANGED <<routes, router, middlewares, dependencies, engine, config, context,
                       injected, lastCall>>

\* #processHandlerResult() up to the outgoing middlewares: the body is awaited.
Process(i) ==
    LET c == ctx[context]
    IN  /\ inv[i].pc = "process"
        /\ IF ~contextHasReturn(c)
           THEN /\ inv' = [inv EXCEPT ![i].pc = "returned",
                                      ![i].outcome = "invalidReturn",
                                      ![i].result = sendErrorResult(InvalidReturn(c))]
                /\ UNCHANGED ctx
           ELSE IF c.res.dynamic.body.kind = "rejecting"
           THEN /\ inv' = [inv EXCEPT ![i].pc = "returned",
                                      ![i].dyn = context,
                                      ![i].outcome = "error",
                                      ![i].result =
                                          sendErrorResult(ErrorString(c.res.dynamic.body.err))]
                /\ UNCHANGED ctx
           ELSE /\ ctx' = [ctx EXCEPT ![context].res.dynamic.body = AwaitBody(@)]
                /\ inv' = [inv EXCEPT ![i].pc = "outgoing", ![i].dyn = context, ![i].jdx = 1]
        /\ UNCHANGED <<routes, router, middlewares, dependencies, engine, config, context,
                       injected, lastCall>>

\* A loop over #middlewares.outgoing outside the try: what a middleware
\* throws leaves attach().
Outgoing_uncaught(i) ==
    LET prog == middlewares.outgoing[inv[i].jdx]
        d    == ctx[inv[i].dyn].res.dynamic
        out  == RunInterceptor(d, config.showPoweredBy, prog)
        ran  == Append(inv[i].trace, Ran("outgoing", inv[i].jdx, prog, ctx[context],
                                         TRUE, out.error))
    IN  /\ inv[i].pc = "outgoing"
        /\ inv[i].jdx <= Len(middlewares.outgoing)
        /\ ctx' = [ctx EXCEPT ![inv[i].dyn].res.dynamic = out.d]
        /\ inv' = [inv EXCEPT ![i] =
                     IF out.error # NoError
                     THEN [@ EXCEPT !.pc = "thrown", !.trace = ran, !.error = out.error]
                     ELSE [@ EXCEPT !.jdx = @ + 1, !.trace = ran]]
        /\ UNCHANGED <<routes, router, middlewares, dependencies, engine, config, context,
                       injected, lastCall>>

\* One turn of the loop over #middlewares.outgoing; an error is caught and
\* answered with #sendErrorResult.
Outgoing(i) ==
    LET prog == middlewares.outgoing[inv[i].jdx]
        d    == ctx[inv[i].dyn].res.dynamic
        out  == RunInterceptor(d, config.showPoweredBy, prog)
        ran  == Append(inv[i].trace, Ran("outgoing", inv[i].jdx, prog, ctx[context],
                                         TRUE, out.error))
    IN  /\ inv[i].pc = "outgoing"
        /\ inv[i].jdx <= Len(middlewares.outgoing)
        /\ ctx' = [ctx EXCEPT ![inv[i].dyn].res.dynamic = out.d]
        /\ inv' = [inv EXCEPT ![i] =
                     IF out.error # NoError
                     THEN [@ EXCEPT !.pc = "returned", !.trace = ran, !.outcome = "error",
                                    !.result = sendErrorResult(ErrorString(out.error))]
                     ELSE [@ EXCEPT !.jdx = @ + 1, !.trace = ran]]
        /\ UNCHANGED <<routes, router, middlewares, dependencies, engine, config, context,
                       injected, lastCall>>

\* After the outgoing middlewares: #compress(dynamic), then return dynamic.
Finish(i) ==
    LET d    == ctx[inv[i].dyn].res.dynamic
        done == compress(d, config.compression, ctx[context].req.headers)
    IN  /\ inv[i].pc = "outgoing"
        /\ inv[i].jdx > Len(middlewares.outgoing)
        /\ ctx' = [ctx EXCEPT ![inv[i].dyn].res.dynamic = done]
        /\ inv' = [inv EXCEPT ![i].pc = "returned", ![i].outcome = "response",
                               ![i].result = done]
        /\ UNCHANGED <<routes, router, middlewares, dependencies, engine, config, context,
                       injected, lastCall>>

\* The host takes the outcome of attach(): the entry point's await ends.
Complete(i) ==
    /\ inv[i].pc \in {"returned", "thrown"}
    /\ inv' = [inv EXCEPT ![i] = IdleInv]
    /\ ctx' = [ctx EXCEPT ![i] = NoContext]
    /\ UNCHANGED <<routes, router, middlewares, dependencies, engine, config, context,
                   injected, lastCall>>

(***************************************************************************)
(* Specifications.  Each one drives the same actions with the inputs of    *)
(* one concern; an invocation runs to its end before the next call.        *)
(***************************************************************************)
\* No request headers.
NoHeaders == <<>>

\* The steps of one invocation once its context is attached.
Pipeline(i) ==
    \/ Incoming(i)
    \/ Handle(i)
    \/ Process(i)
    \/ Outgoing(i)
    \/ Finish(i)
    \/ Complete(i)

\* Middleware and handlers that answer, throw or do nothing.
PipelineHandlers ==
    {<<Stmt("send", <<"ok">>, "", 200)>>, <<Stmt("throw", <<"boom">>, "", 0)>>,
     <<Stmt("log", <<>>, "", 0)>>,
     <<Stmt("binary", <<"name">>, "missing", 200)>>}

PipelineIncoming ==
    {<<Stmt("log", <<>>, "", 0)>>,
     <<Stmt("send", <<"mw">>, "", 200)>>,
     <<Stmt("throw", <<"denied">>, "", 0)>>}

PipelineOutgoing ==
    {<<Stmt("setHeader", <<"x-out">>, "1", 0)>>,
     <<Stmt("setBody", <<"rewritten">>, "", 0), Stmt("setStatus", <<>>, "", 202)>>,
     <<Stmt("throw", <<"out">>, "", 0)>>}

PipelineMethods == {"GET", "post", "HEAD"}

PipelinePaths == {<<"/", "a">>, <<"/", "b">>}

Next ==
    \/ \E h \in PipelineHandlers : Register("get", <<"/", "a">>, h)
    \/ \E m \in PipelineIncoming : MiddlewareIncoming(m)
    \/ \E m \in PipelineOutgoing : MiddlewareOutgoing(m)
    \/ \E method \in PipelineMethods, path \in PipelinePaths :
          Attach(1, method, path, NoHeaders)
    \/ Pipeline(1)

Spec == Init /\ [][Next]_vars

C3_ErrorsPropagate ==
    \A i \in Inv : \A k \in 1..Len(inv[i].trace) :
        LET t == inv[i].trace
        IN  (t[k].kind \in {"incoming", "handler"} /\ t[k].error # NoError) =>
                /\ k = Len(t)
                /\ inv[i].pc = "thrown"
                /\ inv[i].error = t[k].error
                /\ inv[i].result = NoDynamic
                /\ inv[i].outcome = ""

\* The first of two incoming middlewares threw in front of a route handler.
C3_Witness ==
    \E i \in Inv :
        /\ inv[i].pc = "thrown"
        /\ inv[i].error = Error(<<"denied">>)
        /\ Len(middlewares.incoming) = 2
        /\ inv[i].routeHandler # UndefinedHandler
        /\ Len(inv[i].trace) = 1

\* C4: an invocation that resolved no route and whose incoming middlewares
\* all ended without a response (and without throwing) returns the
\* descriptor "Cannot <METHOD> '<path>'.", status 500, text/plain; it does
\* not throw.
C4_RouteNotFound ==
    \A i \in Inv :
        ( /\ inv[i].pc \in {"returned", "thrown"}
          /\ inv[i].routeHandler = UndefinedHandler
          /\ \A k \in 1..Len(inv[i].trace) :
                ~inv[i].trace[k].responded /\ inv[i].trace[k].error = NoError ) =>
            /\ inv[i].pc = "returned"
            /\ inv[i].result =
                  [set |-> TRUE,
                   body |-> Str(<<"Cannot ", ToUpperCase(ctx[i].req.method), " '">>
                                \o ctx[i].requestPath \o <<"'.">>),
                   statusCode |-> 500,
                   headers |-> [h \in {"content-type"} |-> "text/plain"]]

(***************************************************************************)
(* Response methods: a handler makes one or two response-producing calls.  *)
(***************************************************************************)
ResponseCalls ==
    {Stmt("send", <<"sent">>, "", 200),
     Stmt("text", <<"texted">>, "", 201),
     Stmt("json", <<"object">>, "", 202),
     Stmt("redirect", <<"url">>, "", 0),
     Stmt("empty", <<>>, "", 0),
     Stmt("binary", <<"bytes">>, "buffer", 203),
     Stmt("binary", <<"name">>, "missing", 203),
     Stmt("render", <<"view">>, "", 205),
     Stmt("render", <<"view">>, "html", 205)}

ResponseHandlers ==
    {<<a>> : a \in ResponseCalls} \cup {<<a, b>> : a \in ResponseCalls, b \in ResponseCalls}

ResponseEngines == {"html", "ejs"}

\* What a registered engine does with a view: call back with the content, or
\* with an error.
EngineKinds == {"renders", "failing"}

NextResponse ==
    \/ \E h \in ResponseHandlers : Register("get", <<"/", "a">>, h)
    \/ \E ext \in ResponseEngines, kind \in EngineKinds : Engine(ext, kind)
    \/ Attach(1, "GET", <<"/", "a">>, NoHeaders)
    \/ Handle(1)
    \/ Process(1)
    \/ Outgoing(1)
    \/ Finish(1)
    \/ Complete(1)

SpecResponse == Init /\ [][NextResponse]_vars

\* render() throws before it looks at the prepared response: no view engine,
\* or several engines and a file path without extension.
RenderRefuses(st) ==
    st.op = "render" /\ (Len(engine) = 0 \/ (st.y = "" /\ Len(engine) # 1))

\* The handler of invocation i made two response-producing calls and has ended.
TwoCalls(i) ==
    /\ inv[i].pc \in {"process", "thrown"}
    /\ Len(inv[i].trace) = 1
    /\ inv[i].trace[1].kind = "handler"
    /\ Len(inv[i].trace[1].prog) = 2

\* The status the first call asked for.
StatusOf(st) ==
    IF st.op = "empty" THEN 204 ELSE IF st.op = "redirect" THEN 301 ELSE st.s

\* C1 as stated: the first of two response-producing calls sets the
\* descriptor, the second throws 'A response has already been prepared...',
\* the error leaves attach() and no descriptor is returned.
C1_SingleResponse_AsStated ==
    \A i \in Inv :
        TwoCalls(i) =>
            /\ ctx[i].res.dynamic.set
            /\ ctx[i].res.dynamic.statusCode = StatusOf(inv[i].trace[1].prog[1])
            /\ inv[i].pc = "thrown"
            /\ inv[i].error = Error(<<"A response has already been prepared. Cannot initiate another response.">>)
            /\ inv[i].result = NoDynamic

\* C1: the first of two response-producing calls sets the descriptor and the
\* second throws, so attach() rejects and returns no descriptor; the error
\* is 'A response has already been prepared...' unless the second call is a
\* render() that refuses its arguments first ('No view engine found.' or
\* the multiple-engines error).  A first render() that refuses throws
\* itself, and nothing is prepared.
C1_SingleResponse ==
    \A i \in Inv :
        TwoCalls(i) =>
            LET first  == inv[i].trace[1].prog[1]
                second == inv[i].trace[1].prog[2]
            IN  /\ inv[i].pc = "thrown"
                /\ inv[i].result = NoDynamic
                /\ inv[i].outcome = ""
                /\ IF RenderRefuses(first)
                   THEN /\ ~ctx[i].res.dynamic.set
                        /\ inv[i].error.message \in
                              {<<"No view engine found.">>,
                               <<"You seem to have set multiple view engines; please use file paths with extension.">>}
                   ELSE /\ ctx[i].res.dynamic.set
                        /\ ctx[i].res.dynamic.statusCode = StatusOf(first)
                        /\ IF RenderRefuses(second)
                           THEN inv[i].error.message =
                                   IF Len(engine) = 0
                                   THEN <<"No view engine found.">>
                                   ELSE <<"You seem to have set multiple view engines; please use file paths with extension.">>
                           ELSE inv[i].error = Error(<<"A response has already been prepared. Cannot initiate another response.">>)

\* json() after send(): the second call threw and attach() rejected.
C1_Witness ==
    \E i \in Inv :
        /\ TwoCalls(i)
        /\ inv[i].trace[1].prog[1].op = "send"
        /\ inv[i].trace[1].prog[2].op = "json"
        /\ inv[i].pc = "thrown"
        /\ inv[i].error = AlreadyPrepared
        /\ ctx[i].res.dynamic.body = Str(<<"sent">>)

(***************************************************************************)
(* Dependency injection: instances are injected, handlers retrieve them.   *)
(***************************************************************************)
Instances == {"repositoryOne", "repositoryTwo", "service"}

Identifiers == {"", "one"}

TypeNames == {TypeName(o) : o \in Instances}

InjectionHandlers ==
    {<<Stmt("retrieveSend", <<T>>, id, 200)>> : T \in TypeNames, id \in Identifiers}
        \cup {<<Stmt("throw", <<"boom">>, "", 0)>>}

NextDI ==
    \/ \E o \in Instances, id \in Identifiers : Inject(o, id)
    \/ \E h \in InjectionHandlers : Register("get", <<"/", "a">>, h)
    \/ \E path \in PipelinePaths : Attach(1, "GET", path, NoHeaders)
    \/ Handle(1)
    \/ Process(1)
    \/ Outgoing(1)
    \/ Finish(1)
    \/ Complete(1)

SpecDI == Init /\ [][NextDI]_vars

\* C7 as stated: once an invocation of attach() has ended (it returned a
\* descriptor or threw), the dependency registry is empty.
C7_RegistryClearedAfterAttach ==
    \A i \in Inv : inv[i].pc \in {"returned", "thrown"} => dependencies = EmptyMap

\* The keys of the registry are pairwise different.
KeysUnique(registry) ==
    \A m, n \in 1..Len(registry) : registry[m].k = registry[n].k => m = n

\* C8: inject(object, identifier) on a key (type name, or type name ':'
\* identifier) that is present throws, with one message for a collision with
\* identifier and another without, and leaves the registry as it was; on an
\* absent key it appends the instance under that key.  The keys of the
\* registry stay unique.
C8_DuplicateInjectionRejected ==
    [][\A o \in Instances, id \in Identifiers :
          Inject(o, id) =>
              LET T   == IF o = "service" THEN "Service" ELSE "LoremIpsumRepository"
                  key == IF id = "" THEN <<T>> ELSE <<T, ":", id>>
              IN  /\ IF \E n \in 1..Len(dependencies) : dependencies[n].k = key
                     THEN /\ dependencies' = dependencies
                          /\ lastCall'.error.message =
                                IF id = ""
                                THEN <<"An instance of '", T, "' is already injected.">>
                                ELSE <<"An instance of '", T, "' with identifier '", id,
                                       "' is already injected.">>
                     ELSE /\ lastCall'.error = NoError
                          /\ Len(dependencies') = Len(dependencies) + 1
                          /\ dependencies'[Len(dependencies')].k = key
                          /\ dependencies'[Len(dependencies')].v.instance = o
                          /\ SubSeq(dependencies', 1, Len(dependencies)) = dependencies
                  /\ KeysUnique(dependencies')]_vars

\* A second instance of a type was refused under an identifier already
\* taken, and the first instance is still the one registered.
C8_Witness ==
    /\ lastCall.op = "inject"
    /\ lastCall.error = AlreadyInjected("LoremIpsumRepository", "one")
    /\ \E n \in 1..Len(dependencies) :
          /\ dependencies[n].k = <<"LoremIpsumRepository", ":", "one">>
          /\ dependencies[n].v.instance = "repositoryTwo"
    /\ <<"repositoryOne", "one">> \notin injected

\* C9: a handler's retrieve(T, id) gives the instance x of type T that was
\* injected with identifier id; when no instance was injected under that
\* type and identifier (in particular when T was only injected with another
\* identifier, or only with one) it throws "No instance found for 'T'." or
\* "No instance found for 'T' with identifier 'id'.".
C9_RetrieveByKey ==
    \A i \in Inv :
        ( /\ Len(inv[i].trace) = 1
          /\ inv[i].trace[1].kind = "handler"
          /\ inv[i].trace[1].prog[1].op = "retrieveSend"
          /\ inv[i].pc \in {"process", "thrown"} ) =>
            LET T     == inv[i].trace[1].prog[1].x[1]
                id    == inv[i].trace[1].prog[1].y
                given == {o \in Instances : TypeName(o) = T /\ <<o, id>> \in injected}
            IN  IF given = {}
                THEN /\ inv[i].pc = "thrown"
                     /\ inv[i].error.message =
                           IF id = ""
                           THEN <<"No instance found for '", T, "'.">>
                           ELSE <<"No instance found for '", T, "' with identifier '", id, "'.">>
                ELSE /\ inv[i].pc = "process"
                     /\ \E o \in given : ctx[i].res.dynamic.body = Str(<<o>>)
                     /\ Cardinality(given) = 1

\* With one repository injected under "one" and another without identifier,
\* retrieve(LoremIpsumRepository, "one") gave the first.
C9_Witness ==
    \E i \in Inv :
        /\ inv[i].pc = "process"
        /\ inv[i].trace[1].prog[1] = Stmt("retrieveSend", <<"LoremIpsumRepository">>, "one", 200)
        /\ injected = {<<"repositoryOne", "one">>, <<"repositoryTwo", "">>}
        /\ ctx[i].res.dynamic.body = Str(<<"repositoryOne">>)

(***************************************************************************)
(* Route resolution: patterns are registered, requests are resolved.       *)
(***************************************************************************)
RoutePatterns ==
    {<<"/", "a">>, <<"/", "a", "/", ":", "b">>, <<"*">>, <<"/", "a", ".", "b">>}

RouteBuckets == {"get", "all"}

RoutePaths ==
    {<<"/", "a">>, <<"/", "a", "/", "x">>, <<"/", "z">>, <<"/", "a", "x", "b">>,
     <<"/", "a", "/", "x", "/", "z">>, <<"/", "a", "/", "/", "x">>}

\* The handler registered for a pattern answers with the bucket and the pattern.
HandlerOf(bucket, pattern) == <<Stmt("send", <<bucket>> \o pattern, "", 200)>>

NextRoutes ==
    \/ \E b \in RouteBuckets, p \in RoutePatterns : Register(b, p, HandlerOf(b, p))
    \/ \E path \in RoutePaths : Attach(1, "GET", path, NoHeaders)
    \/ Handle(1)
    \/ Process(1)
    \/ Outgoing(1)
    \/ Finish(1)
    \/ Complete(1)

SpecRoutes == Init /\ [][NextRoutes]_vars

\* The segments of a path or pattern: split by '/', empty pieces discarded.
Segments(s) == FilterNonEmpty(Split(s))

\* A pattern made only of literal and :name segments.
PlainPattern(p) == \A k \in 1..Len(p) : p[k] # "*"

\* Same number of segments, and every literal segment of the pattern equal
\* to the path's segment at that place.
SegmentsAgree(p, path) ==
    /\ Len(Segments(p)) = Len(Segments(path))
    /\ \A n \in 1..Len(Segments(p)) :
          Segments(p)[n][1] # ":" => Segments(p)[n] = Segments(path)[n]

NoEmptySegment(path) == \A k \in 1..(Len(path) - 1) : ~(path[k] = "/" /\ path[k + 1] = "/")

\* C5 as stated, for request paths without empty segments: a pattern of
\* literal and :name segments is the one the scan selects only if it has as
\* many segments as the path and its literal segments are equal to the
\* path's; a pattern of the method's bucket that agrees in this way is
\* found; and the parameters are the path's segments at the :name places.
C5_PatternSpecificity ==
    \A i \in Inv :
        (inv[i].pc \notin {"idle", "thrown"} /\ NoEmptySegment(ctx[i].requestPath)) =>
            LET path == ctx[i].requestPath
                own  == routes[ToLowerCase(ctx[i].req.method)]
            IN  /\ (inv[i].via = "scan" /\ PlainPattern(inv[i].pattern)) =>
                      /\ SegmentsAgree(inv[i].pattern, path)
                      /\ \A n \in 1..Len(Segments(inv[i].pattern)) :
                            LET seg == Segments(inv[i].pattern)[n]
                            IN  seg[1] = ":" =>
                                   /\ ctx[i].req.params.set
                                   /\ Tail(seg) \in DOMAIN ctx[i].req.params.map
                                   /\ ctx[i].req.params.map[Tail(seg)] = Segments(path)[n]
                /\ (\E n \in 1..Len(own) : PlainPattern(own[n].k) /\ SegmentsAgree(own[n].k, path))
                      => inv[i].via \in {"exact", "scan"}

\* C6 as stated: the handler registered under the literal '*' (of the
\* method's bucket or of the ALL bucket) is selected only when no other
\* pattern of the method's bucket and no other pattern of the ALL bucket
\* matches the path.
C6_WildcardLowestPriority ==
    \A i \in Inv :
        (inv[i].pc \notin {"idle", "thrown"} /\ inv[i].pattern = STAR) =>
            LET path == ctx[i].requestPath
                own  == routes[ToLowerCase(ctx[i].req.method)]
            IN  /\ \A n \in 1..Len(own) :
                      own[n].k # STAR => ~RegexTest(RegexPattern(own[n].k), path)
                /\ \A n \in 1..Len(routes.all) :
                      routes.all[n].k # STAR => ~RegexTest(RegexPattern(routes.all[n].k), path)

(***************************************************************************)
(* Routers: routes are collected in a router and mounted with use().       *)
(***************************************************************************)
RouterPatterns == {<<"/", ":", "i">>, <<"/">>}

RouterBuckets == {"get", "post"}

MountPaths == {<<"/", "a", "p", "i">>, <<"/", "a", "p", "i", "/">>, <<"/", "r">>}

RouterPaths == {<<"/", "a", "p", "i", "/", "4">>, <<"/", "r">>, <<"/", "r", "/">>}

NextRouter ==
    \/ NewRouter
    \/ \E b \in RouterBuckets, p \in RouterPatterns : RouterRegister(b, p, HandlerOf(b, p))
    \/ \E base \in MountPaths : Use(base)
    \/ \E path \in RouterPaths : Attach(1, "GET", path, NoHeaders)
    \/ Handle(1)
    \/ Process(1)
    \/ Outgoing(1)
    \/ Finish(1)
    \/ Complete(1)

SpecRouter == Init /\ [][NextRouter]_vars

\* base + '/' + p with each run of '/' collapsed into one and one trailing
\* '/' removed unless the result is just '/'.
MountedPattern(base, p) ==
    LET raw  == base \o <<"/">> \o p
        keep == {k \in 1..Len(raw) : ~(k > 1 /\ raw[k] = "/" /\ raw[k - 1] = "/")}
        nth(j) == CHOOSE k \in keep : Cardinality({m \in keep : m <= k}) = j
        one  == [j \in 1..Cardinality(keep) |-> raw[nth(j)]]
    IN  IF Len(one) > 1 /\ one[Len(one)] = "/" THEN SubSeq(one, 1, Len(one) - 1) ELSE one

\* C10: use(base, router) of a router that has routes sets, for every route
\* (method, p) of the router, the pattern base + '/' + p (runs of '/'
\* collapsed, one trailing '/' removed unless the result is '/') in the
\* application's bucket of the same method, with the router's handler, and
\* touches no other pattern; a request GET /api/4 resolved through the
\* mounted pattern /api/:i has params {i: '4'}, and the router route '/'
\* mounted at /r answers /r.
C10_RouterMounting ==
    /\ [][\A base \in MountPaths :
            (Use(base) /\ ~router.empty) =>
                \A b \in Buckets :
                    LET from == router.internalRoutes[b]
                    IN  /\ \A n \in 1..Len(from) :
                              \E m \in 1..Len(routes'[b]) :
                                  /\ routes'[b][m].k = MountedPattern(base, from[n].k)
                                  /\ (\A n2 \in (n + 1)..Len(from) :
                                         MountedPattern(base, from[n2].k) # routes'[b][m].k)
                                       => routes'[b][m].v = from[n].v
                        /\ \A m \in 1..Len(routes'[b]) :
                              \/ \E n \in 1..Len(from) :
                                    routes'[b][m].k = MountedPattern(base, from[n].k)
                              \/ m <= Len(routes[b]) /\ routes'[b][m] = routes[b][m]]_vars
    /\ [](\A i \in Inv :
            /\ ( /\ inv[i].pc \notin {"idle", "thrown"}
                 /\ ctx[i].requestPath = <<"/", "a", "p", "i", "/", "4">>
                 /\ \E n \in 1..Len(routes.get) : routes.get[n].k = <<"/", "a", "p", "i", "/", ":", "i">> )
               => /\ inv[i].routeHandler = HandlerOf("get", <<"/", ":", "i">>)
                  /\ ctx[i].req.params.set
                  /\ ctx[i].req.params.map = [name \in {<<"i">>} |-> <<"4">>]
            /\ ( /\ inv[i].pc \notin {"idle", "thrown"}
                 /\ ctx[i].requestPath = <<"/", "r">>
                 /\ \E n \in 1..Len(routes.get) : routes.get[n].k = <<"/", "r">> )
               => inv[i].routeHandler = HandlerOf("get", <<"/">>))

\* The router route GET '/:i' mounted at '/api/' answered GET /api/4.
C10_Witness ==
    \E i \in Inv :
        /\ inv[i].pc = "returned"
        /\ inv[i].outcome = "response"
        /\ lastCall.op = "attach"
        /\ ctx[i].requestPath = <<"/", "a", "p", "i", "/", "4">>
        /\ inv[i].pattern = <<"/", "a", "p", "i", "/", ":", "i">>
        /\ RequestParams(ctx[i]) = [name \in {<<"i">>} |-> <<"4">>]
        /\ inv[i].result.body = Str(<<"get", "/", ":", "i">>)

(***************************************************************************)
(* Mounting: routers of every kind of bucket, mounted with and without     *)
(* routes.                                                                 *)
(***************************************************************************)
MountBuckets == {"get", "post", "delete", "all"}

MountBases == {<<"/", "r">>, <<"/", "a", "p", "i">>}

NextMount ==
    \/ NewRouter
    \/ \E b \in MountBuckets : RouterRegister(b, <<"/">>, HandlerOf(b, <<"/">>))
    \/ \E base \in MountBases : Use(base)

SpecMount == Init /\ [][NextMount]_vars

\* C11: use(base, router) of a router on which no route was registered
\* fails with "No routes defined for path '<base>'." and leaves the route
\* table as it was, while a router with a route mounts without an error; a
\* router is empty exactly as long as no route of any bucket (ALL included)
\* was registered on it.
C11_EmptyRouterRejected ==
    /\ [][\A base \in MountBases :
            Use(base) =>
                IF RouteCount(router.internalRoutes) = 0
                THEN /\ lastCall' = [op |-> "use",
                                     error |-> [name |-> "Error",
                                                message |-> <<"No routes defined for path '">>
                                                            \o base \o <<"'.">>]]
                     /\ routes' = routes
                ELSE lastCall' = [op |-> "use", error |-> NoError]]_vars
    /\ [][\A b \in MountBuckets :
            RouterRegister(b, <<"/">>, HandlerOf(b, <<"/">>)) => ~router'.empty]_vars
    /\ [](router.empty <=> RouteCount(router.internalRoutes) = 0)

\* A router without routes was refused at /api after another router had
\* been mounted, and the mounted ALL route is still the only route.
C11_Witness ==
    /\ lastCall.op = "use"
    /\ lastCall.error.message = <<"No routes defined for path '", "/", "a", "p", "i", "'.">>
    /\ router.empty
    /\ RouteCount(routes) = 1
    /\ MapHas(routes.all, <<"/", "r">>)

(***************************************************************************)
(* Resolution across buckets: the six methods against routes of the get,   *)
(* post and all buckets, in every registration order.                      *)
(***************************************************************************)
MethodPatterns == {<<"/", "a">>, <<"/", ":", "b">>, <<"/", "*">>}

MethodBuckets == {"get", "post", "all"}

SixMethods == {"GET", "post", "PUT", "patch", "DELETE", "options"}

MethodPaths == {<<"/", "a">>, <<"/", "x">>}

NextMethods ==
    \/ \E b \in MethodBuckets, p \in MethodPatterns : Register(b, p, HandlerOf(b, p))
    \/ \E method \in SixMethods, path \in MethodPaths : Attach(1, method, path, NoHeaders)
    \/ Handle(1)
    \/ Process(1)
    \/ Outgoing(1)
    \/ Finish(1)
    \/ Complete(1)

SpecMethods == Init /\ [][NextMethods]_vars

\* The bucket holds a pattern, other than the literal '*', that is the path
\* or whose regex matches the path.
BucketMatches(bucket, path) ==
    \E n \in 1..Len(bucket) :
        \/ bucket[n].k = path
        \/ bucket[n].k # STAR /\ PatternMatches(bucket[n].k, path)

\* C12: a request of any of the six methods whose path is matched by a
\* pattern of its own bucket is handled by a matching pattern of that
\* bucket, whatever the ALL bucket holds; a request that no pattern of its
\* own bucket matches and that a pattern of the ALL bucket matches is
\* handled by a matching pattern of the ALL bucket, and the response
\* returned is the one of that handler.
C12_AllBucket ==
    \A i \in Inv :
        inv[i].pc \notin {"idle", "thrown"} =>
            LET method == RequestMethod(ctx[i])
                path   == ctx[i].requestPath
                handledBy(b) ==
                    \E n \in 1..Len(routes[b]) :
                        /\ \/ routes[b][n].k = path
                           \/ PatternMatches(routes[b][n].k, path)
                        /\ inv[i].routeHandler = HandlerOf(b, routes[b][n].k)
                        /\ inv[i].routeHandler = routes[b][n].v
                        /\ inv[i].pc = "returned" =>
                              /\ inv[i].outcome = "response"
                              /\ inv[i].result.body = Str(<<b>> \o routes[b][n].k)
            IN  /\ method \in {"get", "post", "put", "patch", "delete", "options"}
                /\ BucketMatches(routes[method], path) => handledBy(method)
                /\ (~BucketMatches(routes[method], path) /\ BucketMatches(routes.all, path))
                      => handledBy("all")

\* A DELETE request for /x was answered by the ALL route '/:b' while the
\* get bucket holds a pattern that matches /x.
C12_Witness ==
    \E i \in Inv :
        /\ inv[i].pc = "returned"
        /\ ctx[i].req.method = "DELETE"
        /\ ctx[i].requestPath = <<"/", "x">>
        /\ MapHas(routes.get, <<"/", "*">>)
        /\ inv[i].result.body = Str(<<"all", "/", ":", "b">>)

\* C13: a request whose path is string-equal to a pattern of the method's
\* bucket is handled by that pattern's handler, wherever the pattern stands
\* in the bucket and whatever parameter or wildcard patterns registered
\* before it match the path too.
C13_ExactMatchFirst ==
    \A i \in Inv :
        (inv[i].pc \notin {"idle", "thrown"}
            /\ \E n \in 1..Len(routes[RequestMethod(ctx[i])]) :
                  routes[RequestMethod(ctx[i])][n].k = ctx[i].requestPath) =>
            /\ inv[i].routeHandler = HandlerOf(RequestMethod(ctx[i]), ctx[i].requestPath)
            /\ inv[i].pattern = ctx[i].requestPath
            /\ inv[i].pc = "returned" =>
                  inv[i].result.body = Str(<<RequestMethod(ctx[i])>> \o ctx[i].requestPath)

\* GET /a was answered by the route '/a', registered in the get bucket after
\* the routes '/:b' and '/*'.
C13_Witness ==
    \E i \in Inv :
        /\ inv[i].pc = "returned"
        /\ ctx[i].req.method = "GET"
        /\ ctx[i].requestPath = <<"/", "a">>
        /\ Len(routes.get) = 3
        /\ routes.get[3].k = <<"/", "a">>
        /\ inv[i].result.body = Str(<<"get", "/", "a">>)

(***************************************************************************)
(* Properties of #processHandlerResult.                                    *)
(***************************************************************************)
\* C14: when the route handler has completed without an error and without
\* a response-producing call (so no incoming middleware had responded
\* either), the invocation does not throw and runs no outgoing middleware,
\* and what attach() returns is the descriptor with status 500,
\* content-type text/plain and the body "Invalid return from route <path>.
\* Use 'response.empty()' if no response is expected.".
C14_InvalidReturn ==
    \A i \in Inv :
        (inv[i].trace # <<>>
            /\ inv[i].trace[Len(inv[i].trace)].kind = "handler"
            /\ inv[i].trace[Len(inv[i].trace)].error = NoError
            /\ ~inv[i].trace[Len(inv[i].trace)].responded) =>
            /\ inv[i].pc \in {"process", "returned"}
            /\ \A n \in 1..Len(inv[i].trace) : ~inv[i].trace[n].responded
            /\ inv[i].pc = "returned" =>
                  /\ inv[i].result.set
                  /\ inv[i].result.statusCode = 500
                  /\ inv[i].result.headers = [h \in {"content-type"} |-> "text/plain"]
                  /\ inv[i].result.body =
                        [kind |-> "string",
                         val |-> <<"Invalid return from route ">> \o ctx[i].requestPath
                                 \o <<". Use 'response.empty()' if no response is expected.">>,
                         err |-> NoError]

\* GET /a, whose handler only logs, ran after an incoming middleware that
\* did not respond, and was answered with the invalid-return descriptor.
C14_Witness ==
    \E i \in Inv :
        /\ inv[i].pc = "returned"
        /\ inv[i].outcome = "invalidReturn"
        /\ Len(inv[i].trace) = 2
        /\ inv[i].trace[1].kind = "incoming"
        /\ inv[i].trace[2].kind = "handler"
        /\ inv[i].trace[2].prog = <<Stmt("log", <<>>, "", 0)>>
        /\ inv[i].result.statusCode = 500

(***************************************************************************)
(* The X-Powered-By stamp: handlers and middlewares that set the header    *)
(* themselves or not, with the stamp switched on and off.                  *)
(***************************************************************************)
SetsPoweredBy == Stmt("setHeaders", <<"X-Powered-By">>, "mine", 0)

PoweredByHandlers ==
    {<<Stmt("send", <<"ok">>, "", 200)>>,
     <<SetsPoweredBy, Stmt("send", <<"ok">>, "", 200)>>,
     <<SetsPoweredBy, Stmt("json", <<"ok">>, "", 200)>>,
     <<Stmt("empty", <<>>, "", 0)>>}

PoweredByIncoming ==
    {<<Stmt("send", <<"mw">>, "", 200)>>,
     <<SetsPoweredBy, Stmt("send", <<"mw">>, "", 200)>>}

NextPoweredBy ==
    \/ \E value \in BOOLEAN : PoweredByHeader(value)
    \/ \E h \in PoweredByHandlers : Register("get", <<"/", "a">>, h)
    \/ \E m \in PoweredByIncoming : MiddlewareIncoming(m)
    \/ \E path \in PipelinePaths : Attach(1, "GET", path, NoHeaders)
    \/ Pipeline(1)

SpecPoweredBy == Init /\ [][NextPoweredBy]_vars

\* The callback that prepared the response of invocation i set the
\* X-Powered-By header before.
HandlerSetPoweredBy(i) ==
    \E n \in 1..Len(inv[i].trace) :
        /\ inv[i].trace[n].kind \in {"incoming", "handler"}
        /\ inv[i].trace[n].responded
        /\ Head(inv[i].trace[n].prog) = SetsPoweredBy

OutgoingRuns(i) == SelectSeq(inv[i].trace, LAMBDA t : t.kind = "outgoing")

\* A callback of invocation i, an incoming middleware or the route handler,
\* has prepared a response.
Produced(i) ==
    \E n \in 1..Len(inv[i].trace) :
        inv[i].trace[n].kind \in {"incoming", "handler"} /\ inv[i].trace[n].responded

IncomingPrograms ==
    {<<Stmt("log", <<>>, "", 0)>>,
     <<Stmt("await", <<>>, "", 0), Stmt("log", <<>>, "", 0)>>,
     <<Stmt("await", <<>>, "", 0), Stmt("send", <<"mw">>, "", 200)>>}

NextIncoming ==
    \/ Register("get", <<"/", "a">>, <<Stmt("send", <<"ok">>, "", 200)>>)
    \/ \E m \in IncomingPrograms : MiddlewareIncoming(m)
    \/ Static(<<"/", "b">>)
    \/ \E path \in PipelinePaths : Attach(1, "GET", path, NoHeaders)
    \/ Resume(1)
    \/ Pipeline(1)

SpecIncoming == Init /\ [][NextIncoming]_vars

\* The number of incoming middlewares that have run to their end before
\* position k of the trace of invocation i.
EndedBefore(i, k) ==
    Cardinality({m \in 1..(k - 1) : inv[i].trace[m].kind = "incoming"})

\* C17: every registration of an incoming middleware, by middleware() or by
\* static(), puts it after the ones registered before; in an invocation the
\* n-th registered middleware is called only when the n - 1 before it have
\* run to their end, a middleware that is called runs to its end before
\* anything else of the invocation is called, and the route handler and
\* the outgoing middlewares are called only when no middleware is pending.
C17_IncomingOrder ==
    /\ [][/\ \A m \in IncomingPrograms :
               MiddlewareIncoming(m) => middlewares'.incoming = Append(middlewares.incoming, m)
          /\ Static(<<"/", "b">>) =>
               /\ Len(middlewares'.incoming) = Len(middlewares.incoming) + 1
               /\ SubSeq(middlewares'.incoming, 1, Len(middlewares.incoming))
                     = middlewares.incoming]_vars
    /\ [](\A i \in Inv :
            LET t == inv[i].trace
            IN  /\ \A k \in 1..Len(t) :
                      /\ t[k].kind \in {"started", "incoming"} =>
                            /\ t[k].prog = middlewares.incoming[t[k].n]
                            /\ t[k].n = EndedBefore(i, k) + 1
                      /\ t[k].kind = "started" =>
                            IF k = Len(t)
                            THEN inv[i].pc = "incoming" /\ inv[i].awaiting
                            ELSE t[k + 1].kind = "incoming"
                      /\ (t[k].kind = "incoming" /\ k > 1 /\ Suspends(t[k].prog)) =>
                            t[k - 1].kind = "started"
                      /\ t[k].kind = "handler" =>
                            /\ EndedBefore(i, k) = Len(middlewares.incoming)
                            /\ \A m \in 1..(k - 1) : ~t[m].responded
                      /\ t[k].kind = "outgoing" => t[k - 1].kind # "started"
                /\ inv[i].awaiting =>
                      /\ t # <<>>
                      /\ t[Len(t)].kind = "started"
                      /\ t[Len(t)].n = inv[i].idx)

\* The handler ran after a middleware of static() and a middleware that was
\* suspended at an await had both run to their end, in that order.
C17_Witness ==
    \E i \in Inv :
        /\ inv[i].pc = "returned"
        /\ inv[i].outcome = "response"
        /\ Len(inv[i].trace) >= 4
        /\ inv[i].trace[1].kind = "incoming"
        /\ inv[i].trace[1].prog[1].op = "static"
        /\ inv[i].trace[2].kind = "started"
        /\ inv[i].trace[3].kind = "incoming"
        /\ inv[i].trace[3].n = 2
        /\ inv[i].trace[4].kind = "handler"

(***************************************************************************)
(* Compression: every policy against clients with and without an           *)
(* accept-encoding header and responses of every kind of body and type.    *)
(***************************************************************************)
CompressionValues ==
    {CompressionValue(TRUE), CompressionValue(FALSE),
     CompressionHandler(<<"zstd">>), CompressionHandler(<<"gzip", "zstd">>)}

\* The request headers: none, or an accept-encoding header.
AcceptEncoding(value) == [h \in {"accept-encoding"} |-> value]

AcceptHeaders ==
    {NoHeaders,
     AcceptEncoding(<<>>),
     AcceptEncoding(<<"gzip">>),
     AcceptEncoding(<<"br">>),
     AcceptEncoding(<<"deflate">>),
     AcceptEncoding(<<"deflate", ",", " ", "gzip">>),
     AcceptEncoding(<<"gzip", ",", " ", "br">>),
     AcceptEncoding(<<"br", ",", "deflate", ",", "gzip">>),
     AcceptEncoding(<<"zstd", ",", " ", "deflate">>),
     AcceptEncoding(<<"zstd">>),
     AcceptEncoding(<<"identity">>)}

CompressionHandlers ==
    {<<Stmt("send", <<"o", "k">>, "", 200)>>,
     <<Stmt("setHeaders", <<"content-type">>, "image/png", 0),
       Stmt("send", <<"p", "n", "g">>, "", 200)>>,
     <<Stmt("setHeaders", <<"content-type">>, "application/json", 0),
       Stmt("json", <<"object">>, "", 200)>>,
     <<Stmt("binary", <<"b", "y", "t", "e", "s">>, "buffer", 200)>>,
     <<Stmt("redirect", <<"url">>, "", 0)>>}

NextCompression ==
    \/ \E value \in CompressionValues : Compression(value)
    \/ \E h \in CompressionHandlers : Register("get", <<"/", "a">>, h)
    \/ \E headers \in AcceptHeaders : Attach(1, "GET", <<"/", "a">>, headers)
    \/ Handle(1)
    \/ Process(1)
    \/ Outgoing(1)
    \/ Finish(1)
    \/ Complete(1)

SpecCompression == Init /\ [][NextCompression]_vars

\* The request of invocation i names the encoding e in accept-encoding.
ClientLists(i, e) ==
    /\ "accept-encoding" \in DOMAIN ctx[i].req.headers
    /\ \E k \in 1..Len(ctx[i].req.headers["accept-encoding"]) :
          ctx[i].req.headers["accept-encoding"][k] = e

\* The request of invocation i has no accept-encoding header (or an empty one).
NoAcceptEncoding(i) ==
    \/ "accept-encoding" \notin DOMAIN ctx[i].req.headers
    \/ ctx[i].req.headers["accept-encoding"] = <<>>

\* The content type of the descriptor d is in the compressible set.
Compressible(d) ==
    /\ "content-type" \in DOMAIN d.headers
    /\ d.headers["content-type"] \in {"text/plain", "text/html", "text/css",
                                      "application/json", "image/svg+xml"}

\* C18: the compression step returns the descriptor with the body and the
\* headers it had after the outgoing middlewares whenever compression is
\* disabled, the request has no accept-encoding header, the body is neither
\* a string nor a buffer, or the content type is not compressible.
C18_CompressionSkipped ==
    [][\A i \in Inv :
          LET d == ctx[inv[i].dyn].res.dynamic
          IN  (Finish(i) /\ ( \/ ~config.compression.enabled
                              \/ NoAcceptEncoding(i)
                              \/ d.body.kind \notin {"string", "buffer"}
                              \/ ~Compressible(d) )) =>
                  /\ inv'[i].result = d
                  /\ ctx'[inv[i].dyn].res.dynamic = d
                  /\ "content-encoding" \notin DOMAIN inv'[i].result.headers]_vars

\* With a custom handler for gzip and a client that accepts gzip, a string
\* body of type image/png was returned as it was.
C18_Witness ==
    \E i \in Inv :
        /\ inv[i].pc = "returned"
        /\ inv[i].outcome = "response"
        /\ config.compression = CompressionHandler(<<"gzip", "zstd">>)
        /\ ClientLists(i, "gzip")
        /\ inv[i].result.body = Str(<<"p", "n", "g">>)
        /\ inv[i].result.headers["content-type"] = "image/png"
        /\ "content-encoding" \notin DOMAIN inv[i].result.headers

\* The headers after a compression: those of before with content-encoding
\* and content-length set.
CompressedHeaders(before, encoding, length) ==
    [h \in DOMAIN before \cup {"content-encoding", "content-length"} |->
        IF h = "content-encoding" THEN encoding
        ELSE IF h = "content-length" THEN length
        ELSE before[h]]

\* What the default policy makes of the descriptor d for invocation i: the
\* first of br, gzip, deflate that the client lists decides.
ByDefaultPolicy(i, d, after) ==
    LET chosen == IF ClientLists(i, "br") THEN "br"
                  ELSE IF ClientLists(i, "gzip") THEN "gzip"
                  ELSE IF ClientLists(i, "deflate") THEN "deflate" ELSE ""
    IN  IF chosen = "" THEN after = d
        ELSE /\ after.body = [kind |-> "buffer", val |-> <<chosen>> \o d.body.val,
                              err |-> NoError]
             /\ after.headers = CompressedHeaders(d.headers, <<chosen>>, Len(after.body.val))
             /\ after.statusCode = d.statusCode

\* C19: with compression(true), an accept-encoding header and a string or
\* buffer body of a compressible type, the descriptor returned is compressed
\* with br if the client lists br, else with gzip if it lists gzip, else
\* with deflate if it lists deflate, wherever in the header they stand;
\* content-encoding is that encoding and content-length the length of the
\* compressed body; when the client lists none of the three the descriptor
\* is returned as it was.
C19_DefaultCompression ==
    [][\A i \in Inv :
          LET d == ctx[inv[i].dyn].res.dynamic
          IN  (Finish(i) /\ config.compression = CompressionValue(TRUE)
                         /\ ~NoAcceptEncoding(i)
                         /\ d.body.kind \in {"string", "buffer"}
                         /\ Compressible(d)) =>
                  /\ ByDefaultPolicy(i, d, inv'[i].result)
                  /\ ctx'[inv[i].dyn].res.dynamic = inv'[i].result]_vars

\* A client that listed gzip before br got the brotli-compressed body with
\* content-encoding br and the length of the compressed body.
C19_Witness ==
    \E i \in Inv :
        /\ inv[i].pc = "returned"
        /\ inv[i].outcome = "response"
        /\ config.compression = CompressionValue(TRUE)
        /\ ctx[i].req.headers = AcceptEncoding(<<"gzip", ",", " ", "br">>)
        /\ inv[i].result.body = Body("buffer", <<"br", "o", "k">>)
        /\ inv[i].result.headers["content-encoding"] = <<"br">>
        /\ inv[i].result.headers["content-length"] = 3

\* C20 as stated: with a custom handler, when the client lists none of the
\* handler's encodings or the content type is not compressible, the
\* descriptor is returned as it was.
C20_CustomCompression_AsStated ==
    [][\A i \in Inv :
          LET d == ctx[inv[i].dyn].res.dynamic
          IN  (Finish(i) /\ config.compression.handler
                         /\ ( \/ \A m \in 1..Len(config.compression.encodings) :
                                    ~ClientLists(i, config.compression.encodings[m])
                              \/ ~Compressible(d) )) =>
                  inv'[i].result = d]_vars

\* C20: with a custom handler, an accept-encoding header and a string or
\* buffer body, the handler's compress function is applied if and only if
\* the client lists an encoding the handler declares and the content type
\* is compressible, and then content-encoding is the handler's encodings
\* joined by ", " and content-length the length of the compressed body;
\* when the content type is not compressible the descriptor is returned as
\* it was; when it is compressible and the client lists none of the
\* handler's encodings, the default policy (br, gzip, deflate) decides.
C20_CustomCompression ==
    [][\A i \in Inv :
          LET d == ctx[inv[i].dyn].res.dynamic
              after == inv'[i].result
              declared == config.compression.encodings
              supported == \E m \in 1..Len(declared) : ClientLists(i, declared[m])
              joined == IF Len(declared) = 1 THEN <<declared[1]>>
                        ELSE <<declared[1], ",", " ", declared[2]>>
          IN  (Finish(i) /\ config.compression.handler
                         /\ ~NoAcceptEncoding(i)
                         /\ d.body.kind \in {"string", "buffer"}) =>
                  IF supported /\ Compressible(d)
                  THEN /\ after.body = [kind |-> "buffer", val |-> <<"custom">> \o d.body.val,
                                        err |-> NoError]
                       /\ after.headers =
                             CompressedHeaders(d.headers, joined, Len(after.body.val))
                       /\ after.statusCode = d.statusCode
                  ELSE /\ after.body.val = <<>> \/ Head(after.body.val) # "custom"
                       /\ IF Compressible(d) THEN ByDefaultPolicy(i, d, after)
                          ELSE after = d]_vars

\* With a custom handler for gzip and zstd, a client that accepts deflate
\* and gzip got the body compressed by the handler, with content-encoding
\* "gzip, zstd".
C20_Witness ==
    \E i \in Inv :
        /\ inv[i].pc = "returned"
        /\ inv[i].outcome = "response"
        /\ config.compression = CompressionHandler(<<"gzip", "zstd">>)
        /\ ctx[i].req.headers = AcceptEncoding(<<"deflate", ",", " ", "gzip">>)
        /\ inv[i].result.body = Body("buffer", <<"custom", "o", "k">>)
        /\ inv[i].result.headers["content-encoding"] = <<"gzip", ",", " ", "zstd">>
        /\ inv[i].result.headers["content-length"] = 3

(***************************************************************************)
(* Compression levels: compression(value, options) with levels inside and  *)
(* outside their bounds, with NaN, and with options objects that lack a    *)
(* key.                                                                    *)
(***************************************************************************)
LevelOptions ==
    {Options(3, Number(br), Number(gzip), Number(deflate)) :
        br \in {1, 11, 12}, gzip \in {0, 9}, deflate \in {1, 9, 10}}
    \cup {DefaultOptions,
          Options(2, Number(5), Number(5), Undefined),
          Options(3, Number(5), Number(5), Undefined),
          Options(3, NaN, Number(6), Number(6)),
          Options(4, Number(5), Number(5), Number(5))}

LevelValues == {CompressionValue(TRUE), CompressionValue(FALSE), CompressionHandler(<<"zstd">>)}

NextLevels ==
    \/ \E value \in LevelValues, options \in LevelOptions : CompressionLevels(value, options)
    \/ \E value \in BOOLEAN : PoweredByHeader(value)

SpecLevels == Init /\ [][NextLevels]_vars

\* The level is a number between min and max.
Within(level, min, max) == level.t = "number" /\ min <= level.v /\ level.v <= max

\* C21: the stored levels are always numbers with 1 <= br <= 11,
\* 1 <= gzip <= 9 and 1 <= deflate <= 9, and a call of compression() whose
\* options do not give such a level for each of the three encodings throws
\* and leaves the stored levels as they were.
C21_LevelBounds ==
    /\ [](/\ Within(config.compressionLevel.br, 1, 11)
          /\ Within(config.compressionLevel.gzip, 1, 9)
          /\ Within(config.compressionLevel.deflate, 1, 9))
    /\ [][\A value \in LevelValues, options \in LevelOptions :
            (CompressionLevels(value, options)
                /\ ~(/\ Within(options.br, 1, 11)
                     /\ Within(options.gzip, 1, 9)
                     /\ Within(options.deflate, 1, 9))) =>
                /\ lastCall'.error # NoError
                /\ config'.compressionLevel = config.compressionLevel]_vars

(***************************************************************************)
(* Failures while the response is finalized.                               *)
(***************************************************************************)
\* The invocation in slot i ended in the catch of #processHandlerResult
\* because the awaited body rejected.
BodyRejected(i) ==
    /\ inv[i].pc = "returned"
    /\ inv[i].outcome = "error"
    /\ inv[i].dyn # 0
    /\ ctx[inv[i].dyn].res.dynamic.body.kind = "rejecting"

\* The tokens of a sequence.
Tokens(seq) == {seq[k] : k \in 1..Len(seq)}

\* C22: when the pending body of a render or of a file rejects while the
\* response is finalized, attach() returns a descriptor with status 500 and
\* content-type text/plain whose body is a fixed text that shows nothing of
\* the error the promise rejected with.
C22_FinalizationFallback ==
    \A i \in Inv :
        BodyRejected(i) =>
            /\ inv[i].result.set
            /\ inv[i].result.statusCode = 500
            /\ DOMAIN inv[i].result.headers = {"content-type"}
            /\ inv[i].result.headers["content-type"] = "text/plain"
            /\ inv[i].result.body.kind = "string"
            /\ Tokens(inv[i].result.body.val)
                   \cap Tokens(ctx[inv[i].dyn].res.dynamic.body.err.message) = {}

(***************************************************************************)
(* The request.params the middlewares see.                                 *)
(***************************************************************************)
ParamPatterns == {<<"/", "a", "/", ":", "b">>, <<"/", ":", "c">>, <<"/", "a">>}

ParamPaths == {<<"/", "a">>, <<"/", "x">>, <<"/", "a", "/", "x">>}

ParamIncoming == {<<Stmt("log", <<>>, "", 0)>>, <<Stmt("send", <<"mw">>, "", 200)>>}

NextParams ==
    \/ \E p \in ParamPatterns : Register("get", p, HandlerOf("get", p))
    \/ \E m \in ParamIncoming : MiddlewareIncoming(m)
    \/ \E path \in ParamPaths : Attach(1, "GET", path, NoHeaders)
    \/ Pipeline(1)

SpecParams == Init /\ [][NextParams]_vars

\* C23: every incoming middleware sees an empty request.params, whatever
\* pattern the request matched; the parameters of the matched pattern are
\* seen by the route handler only.
C23_NoParamsInMiddleware ==
    \A i \in Inv :
        \A n \in 1..Len(inv[i].trace) :
            inv[i].trace[n].kind \in {"incoming", "started"} =>
                inv[i].trace[n].params = <<>>

(***************************************************************************)
(* Request paths with empty segments.                                      *)
(***************************************************************************)
SegmentPatterns == {<<"/", "a", "/", ":", "b">>, <<"/", "a">>, <<"/", ":", "c">>}

SegmentBuckets == {"get", "all"}

SegmentPaths ==
    {<<"/", "a", "/", "x">>, <<"/", "a", "/", "/", "x">>, <<"/", "a", "/", "x", "/">>,
     <<"/", "a", "/", "x", "/", "/">>, <<"/", "/", "a">>, <<"/", "a", "/">>}

NextSegments ==
    \/ \E b \in SegmentBuckets, p \in SegmentPatterns : Register(b, p, HandlerOf(b, p))
    \/ \E path \in SegmentPaths : Attach(1, "GET", path, NoHeaders)
    \/ Handle(1)
    \/ Process(1)
    \/ Outgoing(1)
    \/ Finish(1)
    \/ Complete(1)

SpecSegments == Init /\ [][NextSegments]_vars

\* The path with every run of slashes taken as one slash and without
\* trailing slashes.
SingleSlashes(path) ==
    LET s == CollapseSlashes(path)
    IN  IF s = SLASH THEN s ELSE StripTrailingSlashes(s)

\* C24: a request path with repeated or trailing slashes is resolved as the
\* same path with single slashes and no trailing slash: the same pattern and
\* handler are selected and the same params are extracted.
C24_EmptySegmentsIgnored ==
    \A i \in Inv :
        inv[i].pc \notin {"idle", "thrown"} =>
            LET r == ResolveRoute(routes, RequestMethod(ctx[i]), SingleSlashes(ctx[i].req.path))
            IN  /\ inv[i].pattern = r.pattern
                /\ inv[i].routeHandler = r.handler
                /\ ctx[i].req.params = r.params

(***************************************************************************)
(* Resolution over several invocations.  The descriptor of an invocation   *)
(* stays in its slot until the host takes it, while the next invocation    *)
(* runs in the other slot; the two never run at the same time.             *)
(***************************************************************************)
DeterminismPatterns == {<<"/", "a">>, <<"/", ":", "c">>}

DeterminismBuckets == {"get", "all"}

DeterminismMethods == {"GET", "get"}

DeterminismPaths == {<<"/", "a">>, <<"/", "x">>}

DeterminismHeaders == {NoHeaders, [h \in {"x-user"} |-> "u"]}

DeterminismIncoming == {<<Stmt("log", <<>>, "", 0)>>, <<Stmt("send", <<"mw">>, "", 200)>>}

\* The invocation of slot i has ended or has not begun.
Settled(i) == inv[i].pc \in {"idle", "returned", "thrown"}

NextDeterminism ==
    \/ \E b \in DeterminismBuckets, p \in DeterminismPatterns : Register(b, p, HandlerOf(b, p))
    \/ \E m \in DeterminismIncoming : middlewares.incoming = <<>> /\ MiddlewareIncoming(m)
    \/ \E method \in DeterminismMethods, path \in DeterminismPaths,
          headers \in DeterminismHeaders :
          \/ Settled(2) /\ Attach(1, method, path, headers)
          \/ Settled(1) /\ Attach(2, method, path, headers)
    \/ \E i \in Inv : Pipeline(i)

SpecDeterminism == Init /\ [][NextDeterminism]_vars

\* The invocation of slot i has resolved its route.
Resolved(i) == inv[i].pc \notin {"idle", "thrown"}

Bytes(body) == Body("buffer", body.val)

\* The default policy compresses the descriptor d of invocation i: the
\* compression is compression(true), the body is a string or a buffer of a
\* compressible type and the client lists br, gzip or deflate.
DefaultPolicyCompresses(i, d) ==
    /\ config.compression = CompressionValue(TRUE)
    /\ d.body.kind \in {"string", "buffer"}
    /\ Compressible(d)
    /\ \E e \in {"br", "gzip", "deflate"} : ClientLists(i, e)

NoneButStar(bucket, path) ==
    \A n \in 1..Len(bucket) :
        bucket[n].k # STAR => (bucket[n].k # path /\ ~PatternMatches(bucket[n].k, path))

\* C27: when no pattern other than '*' matches the path, neither in the
\* method's bucket nor in the ALL bucket, the handler registered under '*'
\* in the method's bucket is selected if there is one, and the handler
\* registered under '*' in the ALL bucket only if the method's bucket has
\* no '*'.
C27_WildcardFallbackOrder ==
    \A i \in Inv :
        LET path == ctx[i].requestPath
            own  == routes[ToLowerCase(ctx[i].req.method)]
        IN  ( /\ inv[i].pc \notin {"idle", "thrown"}
              /\ NoneButStar(own, path)
              /\ NoneButStar(routes.all, path) ) =>
                /\ MapHas(own, STAR) => inv[i].routeHandler = MapGet(own, STAR)
                /\ (MapHas(routes.all, STAR) /\ inv[i].routeHandler = MapGet(routes.all, STAR))
                       => ~MapHas(own, STAR)

(***************************************************************************)
(* The order of the scans.                                                 *)
(***************************************************************************)
ScanPatterns == {<<"/", ":", "b">>, <<"/", "*">>, STAR}

ScanBuckets == {"get", "all"}

ScanPaths == {<<"/", "x">>, <<"/", "a", "/", "x">>}

NextScan ==
    \/ \E b \in ScanBuckets, p \in ScanPatterns : Register(b, p, HandlerOf(b, p))
    \/ \E path \in ScanPaths : Attach(1, "GET", path, NoHeaders)
    \/ Handle(1)
    \/ Process(1)
    \/ Outgoing(1)
    \/ Finish(1)
    \/ Complete(1)

SpecScan == Init /\ [][NextScan]_vars

\* The positions of the bucket whose pattern matches the path; the literal
\* '*' counts only if star is TRUE.
MatchingAt(bucket, path, star) ==
    {n \in 1..Len(bucket) :
        /\ star \/ bucket[n].k # STAR
        /\ PatternMatches(bucket[n].k, path)}

\* C28: when the path is no key of the method's bucket, the pattern selected
\* is the one registered first among the patterns of that bucket, other
\* than the literal '*', that match the path; no pattern registered after
\* it is selected in its place.
C28_FirstMatchInMethodBucket ==
    \A i \in Inv :
        LET path  == ctx[i].requestPath
            own   == routes[RequestMethod(ctx[i])]
            found == MatchingAt(own, path, FALSE)
        IN  ( /\ inv[i].pc \notin {"idle", "thrown"}
              /\ ~MapHas(own, path)
              /\ found # {} ) =>
                \E n \in found :
                    /\ \A m \in found : n <= m
                    /\ inv[i].pattern = own[n].k
                    /\ inv[i].routeHandler = own[n].v
                    /\ inv[i].routeHandler = HandlerOf(RequestMethod(ctx[i]), own[n].k)
                    /\ inv[i].pc = "returned" =>
                          inv[i].result.body = Str(<<RequestMethod(ctx[i])>> \o own[n].k)

\* GET /x was answered by the route '/:b' of the get bucket, registered
\* after '*' and before '/*', which matches /x too.
C28_Witness ==
    \E i \in Inv :
        /\ inv[i].pc = "returned"
        /\ ctx[i].requestPath = <<"/", "x">>
        /\ Len(routes.get) = 3
        /\ routes.get[1].k = STAR
        /\ routes.get[2].k = <<"/", ":", "b">>
        /\ routes.get[3].k = <<"/", "*">>
        /\ inv[i].result.body = Str(<<"get", "/", ":", "b">>)

\* C29: when the path is no key of the method's bucket and no pattern of it
\* other than '*' matches, the handler selected is the one of the pattern
\* registered last among all the patterns of the ALL bucket that match the
\* path.
C29_LastMatchInAllBucket ==
    \A i \in Inv :
        LET path  == ctx[i].requestPath
            own   == routes[RequestMethod(ctx[i])]
            found == MatchingAt(routes.all, path, TRUE)
        IN  ( /\ inv[i].pc \notin {"idle", "thrown"}
              /\ ~MapHas(own, path)
              /\ MatchingAt(own, path, FALSE) = {}
              /\ found # {} ) =>
                \E n \in found :
                    /\ \A m \in found : m <= n
                    /\ inv[i].pattern = routes.all[n].k
                    /\ inv[i].routeHandler = routes.all[n].v
                    /\ inv[i].routeHandler = HandlerOf("all", routes.all[n].k)
                    /\ inv[i].pc = "returned" =>
                          inv[i].result.body = Str(<<"all">> \o routes.all[n].k)

\* GET /x was answered by the route '/*' of the ALL bucket, registered after
\* '/:b', which matches /x too, while the get bucket holds nothing but '*'.
C29_Witness ==
    \E i \in Inv :
        /\ inv[i].pc = "returned"
        /\ ctx[i].requestPath = <<"/", "x">>
        /\ Len(routes.get) = 1
        /\ routes.get[1].k = STAR
        /\ Len(routes.all) = 2
        /\ routes.all[1].k = <<"/", ":", "b">>
        /\ routes.all[2].k = <<"/", "*">>
        /\ inv[i].result.body = Str(<<"all", "/", "*">>)

\* C30: whenever an outgoing middleware is called, the body of the
\* descriptor it is given is a concrete value (a string, a buffer, an object
\* or nothing), never a promise still to be awaited; this holds from the
\* first outgoing middleware on.
C30_BodyAwaitedBeforeOutgoing ==
    /\ [][\A i \in Inv :
             Outgoing(i) =>
                 ctx[inv[i].dyn].res.dynamic.body.kind \notin {"pending", "rejecting"}]_vars
    /\ [](\A i \in Inv :
             inv[i].pc = "outgoing" =>
                 ctx[inv[i].dyn].res.dynamic.body.kind \notin {"pending", "rejecting"})

\* The handler rendered a view, whose content is a promise, and the first
\* outgoing middleware is about to be called with the rendered string.
C30_Witness ==
    \E i \in Inv :
        /\ inv[i].pc = "outgoing"
        /\ inv[i].jdx = 1
        /\ Len(middlewares.outgoing) >= 1
        /\ inv[i].routeHandler = <<Stmt("render", <<"view">>, "html", 205)>>
        /\ ctx[inv[i].dyn].res.dynamic.body = Str(<<"view">>)
        /\ ctx[inv[i].dyn].res.dynamic.statusCode = 205

(***************************************************************************)
(* Compression after the outgoing middlewares.                             *)
(***************************************************************************)
LastStepValues == {CompressionValue(TRUE), CompressionHandler(<<"gzip">>)}

LastStepHeaders == {NoHeaders, AcceptEncoding(<<"gzip">>), AcceptEncoding(<<"br">>)}

LastStepOutgoing ==
    {<<Stmt("setBody", <<"rewritten">>, "", 0)>>, <<Stmt("setHeader", <<"x-out">>, "1", 0)>>}

NextLastStep ==
    \/ \E value \in LastStepValues : Compression(value)
    \/ Register("get", <<"/", "a">>, <<Stmt("send", <<"o", "k">>, "", 200)>>)
    \/ \E m \in LastStepOutgoing : MiddlewareOutgoing(m)
    \/ \E headers \in LastStepHeaders : Attach(1, "GET", <<"/", "a">>, headers)
    \/ Handle(1)
    \/ Process(1)
    \/ Outgoing(1)
    \/ Finish(1)
    \/ Complete(1)

SpecLastStep == Init /\ [][NextLastStep]_vars

\* The body is the output of a compression.
IsCompressed(body) ==
    /\ body.kind = "buffer"
    /\ body.val # <<>>
    /\ Head(body.val) \in {"br", "gzip", "deflate", "custom"}

\* The body the last outgoing middleware that rewrites the body leaves; the
\* body given when none rewrites it.
RECURSIVE Rewritten(_, _)
Rewritten(progs, body) ==
    IF progs = <<>> THEN body
    ELSE Rewritten(Tail(progs),
                   IF Head(progs) = <<Stmt("setBody", <<"rewritten">>, "", 0)>>
                   THEN Str(<<"rewritten">>) ELSE body)

\* C31: no outgoing middleware is called with a compressed body or with a
\* content-encoding header, and the descriptor returned is the compression
\* of the descriptor the last outgoing middleware left: when compression
\* applies, the returned body decompresses to the body as the outgoing
\* middlewares rewrote it.
C31_CompressionLast ==
    [][\A i \in Inv :
          LET d == ctx[inv[i].dyn].res.dynamic
          IN  /\ Outgoing(i) =>
                    /\ ~IsCompressed(d.body)
                    /\ "content-encoding" \notin DOMAIN d.headers
              /\ Finish(i) =>
                    /\ inv'[i].result = compress(d, config.compression, ctx[i].req.headers)
                    /\ d.body = Rewritten(middlewares.outgoing, Str(<<"o", "k">>))
                    /\ "content-encoding" \in DOMAIN inv'[i].result.headers =>
                          /\ IsCompressed(inv'[i].result.body)
                          /\ Tail(inv'[i].result.body.val) = d.body.val]_vars

\* With compression(true) and a client that accepts gzip, the handler's
\* "ok" was rewritten by an outgoing middleware and the gzip of the
\* rewritten body was returned.
C31_Witness ==
    \E i \in Inv :
        /\ inv[i].pc = "returned"
        /\ inv[i].outcome = "response"
        /\ config.compression = CompressionValue(TRUE)
        /\ Len(middlewares.outgoing) = 3
        /\ middlewares.outgoing[3] = <<Stmt("setBody", <<"rewritten">>, "", 0)>>
        /\ inv[i].result.body = Body("buffer", <<"gzip", "rewritten">>)
        /\ "content-encoding" \in DOMAIN inv[i].result.headers
        /\ inv[i].result.headers["content-encoding"] = <<"gzip">>

\* The incoming middlewares that ran to their end in invocation i.
IncomingRan(i) == {k \in 1..Len(inv[i].trace) : inv[i].trace[k].kind = "incoming"}

\* C32: in every invocation the incoming middlewares are run, whether or
\* not a route was resolved: an invocation that has ended has run the first
\* registered middleware, and the route-not-found descriptor is returned
\* only after every incoming middleware has run and none has prepared a
\* response.
C32_IncomingAlwaysRun ==
    \A i \in Inv :
        /\ (inv[i].pc \in {"returned", "thrown"} /\ middlewares.incoming # <<>>) =>
              /\ inv[i].trace # <<>>
              /\ inv[i].trace[1].kind \in {"started", "incoming"}
              /\ inv[i].trace[1].n = 1
        /\ (inv[i].pc = "returned" /\ inv[i].outcome = "notFound") =>
              /\ Cardinality(IncomingRan(i)) = Len(middlewares.incoming)
              /\ \A k \in IncomingRan(i) :
                    ~inv[i].trace[k].responded /\ inv[i].trace[k].error = NoError

(***************************************************************************)
(* Parameters of patterns of the ALL bucket and of patterns with '*'.      *)
(***************************************************************************)
NamedPatterns == {<<"/", ":", "b">>, <<"/", ":", "b", "/", "*">>}

NamedBuckets == {"get", "all"}

NamedPaths == {<<"/", "x">>, <<"/", "x", "/", "y">>, <<"/", "x", "/", "y", "/", "z">>}

NextNamed ==
    \/ \E b \in NamedBuckets, p \in NamedPatterns : Register(b, p, HandlerOf(b, p))
    \/ \E path \in NamedPaths : Attach(1, "GET", path, NoHeaders)
    \/ Handle(1)
    \/ Process(1)
    \/ Outgoing(1)
    \/ Finish(1)
    \/ Complete(1)

SpecNamed == Init /\ [][NextNamed]_vars

\* C33: whenever the handler that runs was selected through a pattern with
\* named parameters, of the method's bucket or of the ALL bucket, with or
\* without a '*' segment, request.params holds for every named segment of
\* the pattern the segment of the path at its place.
C33_ParamsForEveryPattern ==
    \A i \in Inv :
        \A k \in 1..Len(inv[i].trace) :
            (inv[i].trace[k].kind = "handler" /\ HasKeys(inv[i].pattern)) =>
                \A n \in 1..Len(Segments(inv[i].pattern)) :
                    LET seg == Segments(inv[i].pattern)[n]
                    IN  seg[1] = ":" =>
                           /\ Tail(seg) \in DOMAIN inv[i].trace[k].params
                           /\ inv[i].trace[k].params[Tail(seg)] = Segments(ctx[i].requestPath)[n]

(***************************************************************************)
(* Overlapping invocations.  An invocation runs, without interruption, up  *)
(* to an await of something that is not settled; while it is suspended in  *)
(* a middleware the host may call attach() again, and a suspended          *)
(* invocation goes on when no other one is running.                        *)
(***************************************************************************)
OverlapPaths == {<<"/", "a">>, <<"/", "b">>}

OverlapIncoming ==
    {<<Stmt("await", <<>>, "", 0), Stmt("log", <<>>, "", 0)>>, <<Stmt("log", <<>>, "", 0)>>}

\* The invocation of slot i is between two awaits.
Running(i) == inv[i].pc \in {"incoming", "process", "outgoing"} /\ ~inv[i].awaiting

\* No other invocation is running: the event loop can turn to slot i.
OthersSuspended(i) == \A j \in Inv \ {i} : ~Running(j)

NextOverlap ==
    \/ \E p \in OverlapPaths : Register("get", p, HandlerOf("get", p))
    \/ \E m \in OverlapIncoming : MiddlewareIncoming(m)
    \/ \E i \in Inv, path \in OverlapPaths :
          OthersSuspended(i) /\ Attach(i, "GET", path, NoHeaders)
    \/ \E i \in Inv : OthersSuspended(i) /\ (Pipeline(i) \/ Resume(i))

SpecOverlap == Init /\ [][NextOverlap]_vars

\* C34: whatever the overlap, an invocation runs its middlewares and its
\* handler on its own request and response (this.#context is its context
\* whenever it runs), and the descriptor it returns is the one prepared on
\* its own context, by the handler of its own path.
C34_InvocationIsolation ==
    \A i \in Inv :
        /\ Running(i) => context = i
        /\ (inv[i].pc = "returned" /\ inv[i].outcome = "response") =>
              /\ inv[i].dyn = i
              /\ inv[i].result.body = Str(<<"get">> \o ctx[i].requestPath)

(***************************************************************************)
(* The descriptors of #sendErrorResult, with compression enabled, clients  *)
(* that accept gzip and outgoing middlewares registered.                   *)
(***************************************************************************)
SyntheticHandlers == {<<Stmt("log", <<>>, "", 0)>>, <<Stmt("send", <<"o", "k">>, "", 200)>>}

SyntheticOutgoing ==
    {<<Stmt("setHeader", <<"x-out">>, "1", 0)>>, <<Stmt("throw", <<"out">>, "", 0)>>}

SyntheticHeaders == {NoHeaders, AcceptEncoding(<<"gzip">>)}

NextSynthetic ==
    \/ \E h \in SyntheticHandlers : Register("get", <<"/", "a">>, h)
    \/ \E m \in SyntheticOutgoing : MiddlewareOutgoing(m)
    \/ \E path \in PipelinePaths, headers \in SyntheticHeaders :
          Attach(1, "GET", path, headers)
    \/ Handle(1)
    \/ Process(1)
    \/ Outgoing(1)
    \/ Finish(1)
    \/ Complete(1)

SpecSynthetic == Init /\ [][NextSynthetic]_vars

\* C35: an invocation answered with the route-not-found or the
\* invalid-return descriptor has called no outgoing middleware, and the
\* descriptor returned is the one #sendErrorResult built: status 500, the
\* message as an uncompressed string, and content-type text/plain as its
\* only header (no X-Powered-By, no content-encoding).
C35_SyntheticErrorsDirect ==
    \A i \in Inv :
        (inv[i].pc = "returned" /\ inv[i].outcome \in {"notFound", "invalidReturn"}) =>
            /\ \A k \in 1..Len(inv[i].trace) : inv[i].trace[k].kind # "outgoing"
            /\ inv[i].result.statusCode = 500
            /\ DOMAIN inv[i].result.headers = {"content-type"}
            /\ inv[i].result.headers["content-type"] = "text/plain"
            /\ inv[i].result.body =
                  Str(IF inv[i].outcome = "notFound" THEN CannotMessage(ctx[i])
                      ELSE InvalidReturn(ctx[i]))

\* GET /b, which has no route, sent by a client that accepts gzip while
\* compression is enabled and two outgoing middlewares are registered, was
\* answered with the plain "Cannot GET '/b'." descriptor.
C35_Witness ==
    \E i \in Inv :
        /\ inv[i].pc = "returned"
        /\ inv[i].outcome = "notFound"
        /\ config.compression.enabled
        /\ config.showPoweredBy
        /\ ctx[i].req.headers = AcceptEncoding(<<"gzip">>)
        /\ Len(middlewares.outgoing) = 2
        /\ inv[i].result.body = Str(<<"Cannot ", "GET", " '", "/", "b", "'.">>)

\* C36: when an outgoing middleware throws, attach() does not throw: no
\* later outgoing middleware is called, nothing is compressed, and the
\* descriptor returned has status 500, content-type text/plain as its only
\* header and the text of the error as its body, whatever the handler had
\* answered.
C36_OutgoingThrowCaught ==
    \A i \in Inv :
        \A k \in 1..Len(inv[i].trace) :
            (inv[i].trace[k].kind = "outgoing" /\ inv[i].trace[k].error # NoError) =>
                /\ k = Len(inv[i].trace)
                /\ inv[i].pc = "returned"
                /\ inv[i].outcome = "error"
                /\ inv[i].error = NoError
                /\ inv[i].result.statusCode = 500
                /\ DOMAIN inv[i].result.headers = {"content-type"}
                /\ inv[i].result.headers["content-type"] = "text/plain"
                /\ inv[i].result.body = Str(ErrorString(inv[i].trace[k].error))
                /\ "content-encoding" \notin DOMAIN ctx[inv[i].dyn].res.dynamic.headers
                /\ ~IsCompressed(ctx[inv[i].dyn].res.dynamic.body)

\* The handler answered "ok" with status 200 to a client that accepts gzip;
\* the second of three outgoing middlewares threw, the third was not
\* called, and the status-500 descriptor was returned.
C36_Witness ==
    \E i \in Inv :
        /\ inv[i].pc = "returned"
        /\ inv[i].outcome = "error"
        /\ ctx[i].req.headers = AcceptEncoding(<<"gzip">>)
        /\ ctx[i].res.dynamic.statusCode = 200
        /\ ctx[i].res.dynamic.body = Str(<<"o", "k">>)
        /\ Len(middlewares.outgoing) = 3
        /\ middlewares.outgoing[2] = <<Stmt("throw", <<"out">>, "", 0)>>
        /\ Len(OutgoingRuns(i)) = 2
        /\ inv[i].result.statusCode = 500
        /\ inv[i].result.body = Str(<<"Error", ": ", "out">>)

(***************************************************************************)
(* Registering a pattern twice.                                            *)
(***************************************************************************)
DuplicatePatterns == {<<"/", "a">>, <<"/", ":", "b">>}

DuplicateHandlers == {<<Stmt("send", <<"one">>, "", 200)>>, <<Stmt("send", <<"two">>, "", 200)>>}

RouterHandler == <<Stmt("send", <<"router">>, "", 200)>>

NextDuplicate ==
    \/ \E p \in DuplicatePatterns, h \in DuplicateHandlers : Register("get", p, h)
    \/ NewRouter
    \/ RouterRegister("get", <<"/", "a">>, RouterHandler)
    \/ Use(SLASH)
    \/ \E path \in MethodPaths : Attach(1, "GET", path, NoHeaders)
    \/ Handle(1)
    \/ Process(1)
    \/ Outgoing(1)
    \/ Finish(1)
    \/ Complete(1)

SpecDuplicate == Init /\ [][NextDuplicate]_vars

\* The bucket after a registration of handler h under pattern p: h stands at
\* the place p had, or at the end when p was not there; every other entry is
\* as before.
SetInPlace(before, after, p, h) ==
    IF MapHas(before, p)
    THEN /\ Len(after) = Len(before)
         /\ \A n \in 1..Len(before) :
               after[n] = IF before[n].k = p THEN [k |-> p, v |-> h] ELSE before[n]
    ELSE after = Append(before, [k |-> p, v |-> h])

\* C37: registering a pattern the method's bucket already holds, with
\* get() or through use(), raises no error; the bucket keeps one entry for
\* the pattern, at the position of its first registration, with the handler
\* registered last, and a request for it is answered by that handler.
C37_LastRegistrationWins ==
    /\ [][/\ \A p \in DuplicatePatterns, h \in DuplicateHandlers :
               Register("get", p, h) =>
                   /\ lastCall'.error = NoError
                   /\ SetInPlace(routes.get, routes'.get, p, h)
          /\ (Use(SLASH) /\ ~router.empty) =>
                   /\ lastCall'.error = NoError
                   /\ SetInPlace(routes.get, routes'.get, <<"/", "a">>, RouterHandler)]_vars
    /\ [](/\ \A n, m \in 1..Len(routes.get) : routes.get[n].k = routes.get[m].k => n = m
          /\ \A i \in Inv :
                (inv[i].pc = "returned" /\ inv[i].via \in {"exact", "scan"}) =>
                    \E n \in 1..Len(routes.get) :
                        /\ routes.get[n].k = inv[i].pattern
                        /\ inv[i].result.body = Str(routes.get[n].v[1].x))

\* '/:b' was registered before '/a', then '/:b' again with another handler
\* and '/a' again through use(): both kept their places, and GET /x was
\* answered by the handler registered last for '/:b'.
C37_Witness ==
    \E i \in Inv :
        /\ inv[i].pc = "returned"
        /\ ctx[i].requestPath = <<"/", "x">>
        /\ Len(routes.get) = 2
        /\ routes.get[1] = [k |-> <<"/", ":", "b">>, v |-> <<Stmt("send", <<"two">>, "", 200)>>]
        /\ routes.get[2] = [k |-> <<"/", "a">>, v |-> RouterHandler]
        /\ inv[i].result.body = Str(<<"two">>)

\* C38: a compression(value, options) call that throws, for a wrong number
\* of keys or for a level out of range, leaves the configured compression
\* policy and the configured levels as they were.
C38_CompressionAtomic ==
    [][\A value \in LevelValues, options \in LevelOptions :
          (CompressionLevels(value, options) /\ lastCall'.error # NoError) =>
              /\ config'.compression = config.compression
              /\ config'.compressionLevel = config.compressionLevel]_vars

\* C39: whenever the compression step has set content-encoding on the
\* returned descriptor, under the default policy or under a custom handler
\* declaring one or several encodings, the header names exactly one
\* encoding, and the client listed that encoding in accept-encoding.
C39_EncodingListedByClient ==
    [][\A i \in Inv :
          (Finish(i) /\ "content-encoding" \in DOMAIN inv'[i].result.headers) =>
              /\ Len(inv'[i].result.headers["content-encoding"]) = 1
              /\ ClientLists(i, inv'[i].result.headers["content-encoding"][1])]_vars

====
